---- MODULE Spec2Model ----
(***************************************************************************)
(* State-machine model of the travel ADK coordinator                       *)
(* (src/src/travel_adk_coordinator.py): the relevance router, the          *)
(* single-agent and multi-agent coordination rounds, the fan-out/fan-in    *)
(* collection loop with its deadline, and the coordinator's conversation   *)
(* memory.  Requests are served by concurrent threads (Flask threaded      *)
(* mode), so several rounds may be in flight at once.                      *)
(***************************************************************************)
EXTENDS Integers, Sequences, FiniteSets, TLC

\* ------------------------------------------------------------------ bounds
NumRounds == 2      \* requests handled in one behaviour
MaxTime == 1        \* the clock (whole seconds) runs over 0..MaxTime
MaxMsgLen == 2      \* words in a message
NumRequests == 4    \* requests whose thread pools are followed at once
NumPlans == 2       \* /plan requests in flight at once
MaxResponses == 5   \* entries of a response dictionary whose quality is assessed
MaxServed == 2      \* requests served by a coordinator after its construction
NumTurns == 3       \* turns sent to one agent
MaxHours == 2       \* hours that pass while an agent's memory is followed
MaxSweeps == 1      \* calls of clear_old_conversations

\* ------------------------------------------------------------------ variables
VARIABLES
    agents,             \* self.agents: the registry keys of the configured agents
    now,                \* int(time.time())
    coordinator_memory, \* self.coordinator_memory: conversation id -> entry
    pc,                 \* where every request is in its handler
    conv,               \* conversation_id of the round
    involved,           \* involved_agents of the round (the RoutingDecision)
    fut,                \* per round and agent: the state of its call
    callOutcome,        \* per round and agent: what the agent's call did
    invocations,        \* per round and agent: the calls made to the agent
    responses,          \* the responses dictionary the round is collecting
    readCount,          \* message_count as read while building the new entry
    outcome,            \* how the request ended: a response, or the 500 answer
    reply,              \* the response returned to the caller
    late,               \* the agents still running when the deadline passed
    prior,              \* agents of the turns answered on the id before the round began
    turns,              \* per conversation id: the turns answered so far
    seen,               \* per conversation id: the agents of the turns answered so far
    overlapped,         \* per conversation id: two rounds on it were in flight at once
    executor,           \* per request: max_workers of the pool it created (0: none)
    submitted,          \* per request: the calls submitted to its pool, not yet started
    executing,          \* per request: the agent calls its pool threads are executing
    user_message,       \* the message handed to the router
    needed_agents,      \* what _determine_agents_needed returned for it
    involved_agents,    \* the agents _coordinate_conversation then works with
    needed_again,       \* what a later call of the router returned for the same message
    store_changed,      \* coordinator_memory was written since the message was routed
    plan_pc,            \* where every /plan request is in its handler
    plan_data,          \* the destination, days and budget a /plan request carries
    plan_id,            \* plan_id of the plan being generated
    queries,            \* per /plan request: the figures of the query of each agent
    plan_fut,           \* per /plan request and agent: the state of its planning query
    plan_invocations,   \* per /plan request and agent: the calls made to the agent
    results,            \* the results dictionary the plan is collecting
    comprehensive_plan, \* the plan returned to the caller
    plan_status,        \* the HTTP status the /plan request was answered with
    conversation_memory, \* per agent: the ids its conversation memory has an entry for
    assessed_responses, \* the responses last given to _assess_coordination_quality
    assessed_quality,   \* what it returned for them
    construction,       \* a coordinator being constructed: initialising, ready, or failed
    agent_init,         \* per agent_configs entry: whether its constructor returned or raised
    new_agents,         \* self.agents of the coordinator being constructed
    served,             \* the requests the constructed coordinator has served
    agent_memory,       \* conversation_memory of one agent, entry by entry
    turn_pc,            \* where every turn sent to that agent is
    turn_given,         \* the conversation_id the caller sent with the turn
    turn_id,            \* conversation_id of the turn inside start_conversation
    chat_history,       \* chat.history of the turn's chat session
    turn_result,        \* the result dictionary the turn returned
    sweeps,             \* the calls of clear_old_conversations made so far
    sweep_age,          \* max_age_hours of the last call
    sweep_returned,     \* what the last call returned
    assessed_summary,   \* the summary _generate_coordinator_summary made of them
    response_text,      \* the response text handed to _extract_key_info
    agent_type,         \* the agent type handed to _extract_key_info
    summary_text,       \* what _extract_key_info returned
    probed,             \* what each agent's health_check did during the request
    agent_health,       \* agent_health of the /health answer
    overall_status      \* overall_status of the /health answer

\* ------------------------------------------------------------------ agents
\* agent_configs: the registry keys, in the order the agents are initialised
AgentOrder == <<"flight", "hotel", "activity">>

AllAgents == {AgentOrder[i] : i \in 1..Len(AgentOrder)}

\* list(self.agents.values()): the configured agents in insertion order
AgentList(configured) == SelectSeq(AgentOrder, LAMBDA a : a \in configured)

SeqToSet(s) == {s[i] : i \in 1..Len(s)}

\* ------------------------------------------------------------------ router
\* agent_keywords: the two keyword tiers of every agent
HighKeywords(a) ==
    CASE a = "flight" -> <<"flight", "fly", "airline", "airport", "departure",
                           "arrival", "ticket", "boarding">>
      [] a = "hotel" -> <<"hotel", "accommodation", "stay", "room", "lodge",
                          "resort", "check-in", "booking">>
      [] a = "activity" -> <<"activity", "restaurant", "food", "tour", "attraction",
                             "museum", "experience", "sightseeing">>

MediumKeywords(a) ==
    CASE a = "flight" -> <<"travel", "trip", "journey", "aviation">>
      [] a = "hotel" -> <<"sleep", "night", "bed", "suite">>
      [] a = "activity" -> <<"eat", "visit", "see", "do", "entertainment", "culture">>

comprehensive_keywords ==
    <<"plan", "trip", "vacation", "travel", "visit", "itinerary", "complete",
      "comprehensive">>

\* general_keywords with "good" left out
general_keywords_without_good == <<"recommend", "suggest", "best", "help", "advice">>

general_keywords == <<"recommend", "suggest", "best", "good", "help", "advice">>

\* The words messages are built from.  A message is a sequence of words; the
\* code lower-cases it and counts substring occurrences of every keyword.
Vocabulary == {"flight", "journey", "bed", "plan", "recommend", "hello"}

\* Pairs <<keyword, word>> where keyword is a proper substring of word.
ProperSubstrings == {<<"see", "sightseeing">>}

\* str.count(keyword) restricted to one word of the message
Occurrences(keyword, word) ==
    IF keyword = word \/ <<keyword, word>> \in ProperSubstrings THEN 1 ELSE 0

RECURSIVE CountIn(_, _, _)
\* message_lower.count(keyword), summed over the words from position i on
CountIn(keyword, message, i) ==
    IF i > Len(message) THEN 0
    ELSE Occurrences(keyword, message[i]) + CountIn(keyword, message, i + 1)

RECURSIVE SumCounts(_, _, _)
\* sum of message_lower.count(word) over a keyword list
SumCounts(keywords, message, i) ==
    IF i > Len(keywords) THEN 0
    ELSE CountIn(keywords[i], message, 1) + SumCounts(keywords, message, i + 1)

\* score of one agent: high-salience hits weigh 3, medium-salience hits 1
Score(a, message) ==
    3 * SumCounts(HighKeywords(a), message, 1) + SumCounts(MediumKeywords(a), message, 1)

\* any(word in message_lower for word in keywords)
ContainsAny(keywords, message) == SumCounts(keywords, message, 1) > 0

\* agent_scores: the agents with a positive score, in dictionary order
ScoredAgents(message) == SelectSeq(AgentOrder, LAMBDA a : Score(a, message) > 0)

MaxOf(S) == CHOOSE m \in S : \A x \in S : x <= m

\* max(agent_scores.values())
MaxScore(message) == MaxOf({Score(a, message) : a \in SeqToSet(ScoredAgents(message))})

\* max(agent_scores, key=agent_scores.get): the first agent with the top score
BestAgent(message) ==
    LET scored == ScoredAgents(message)
        top == {i \in 1..Len(scored) : Score(scored[i], message) = MaxScore(message)}
    IN  scored[CHOOSE i \in top : \A j \in top : i <= j]

\* the score-based selection without the look-up in self.agents
ScoreSelectionUnconfigured(message, configured) ==
    IF ScoredAgents(message) = <<>> THEN <<>>
    ELSE IF MaxScore(message) >= 3 THEN <<BestAgent(message)>>
         ELSE ScoredAgents(message)

\* needed_agents after the score-based selection
ScoreSelection(message, configured) ==
    IF ScoredAgents(message) = <<>> THEN <<>>
    ELSE IF MaxScore(message) >= 3
         THEN IF BestAgent(message) \in configured THEN <<BestAgent(message)>> ELSE <<>>
         ELSE SelectSeq(ScoredAgents(message), LAMBDA a : a \in configured)

\* the general agent taken from the primary agent remembered for the caller's
\* conversation, when there is one
GeneralAgentFromMemory(configured) ==
    IF /\ coordinator_memory[<<"c", 1>>].kind = "single"
       /\ coordinator_memory[<<"c", 1>>].primary_agent \in configured
    THEN coordinator_memory[<<"c", 1>>].primary_agent
    ELSE IF "activity" \in configured THEN "activity" ELSE AgentList(configured)[1]

\* self.agents.get("activity", list(self.agents.values())[0])
GeneralAgent(configured) ==
    IF "activity" \in configured THEN "activity" ELSE AgentList(configured)[1]

\* _determine_agents_needed with the comprehensive keywords looked at only when
\* the scores select nobody
DetermineAgentsNeededScoresFirst(message, configured) ==
    IF ScoreSelection(message, configured) # <<>>
    THEN ScoreSelection(message, configured)
    ELSE IF ContainsAny(comprehensive_keywords, message) THEN AgentList(configured)
         ELSE IF ContainsAny(general_keywords, message)
              THEN <<GeneralAgent(configured)>>
              ELSE <<>>

\* _determine_agents_needed
DetermineAgentsNeeded(message, configured) ==
    IF ContainsAny(comprehensive_keywords, message) THEN AgentList(configured)
    ELSE IF ScoreSelection(message, configured) # <<>>
         THEN ScoreSelection(message, configured)
         ELSE IF ContainsAny(general_keywords, message)
              THEN <<GeneralAgent(configured)>>
              ELSE <<>>

\* _coordinate_conversation without its fallback to every configured agent
InvolvedAgentsNoFallback(message, configured) ==
    DetermineAgentsNeeded(message, configured)

\* involved_agents of _coordinate_conversation: the router's answer, or every
\* configured agent when the router names none
InvolvedAgents(message, configured) ==
    IF DetermineAgentsNeeded(message, configured) = <<>>
    THEN AgentList(configured)
    ELSE DetermineAgentsNeeded(message, configured)

RECURSIVE SeqsUpTo(_, _)
SeqsUpTo(S, n) ==
    IF n = 0 THEN {<<>>}
    ELSE LET shorter == SeqsUpTo(S, n - 1)
         IN  shorter \cup {Append(s, x) : s \in shorter, x \in S}

\* the words of the messages the router is called with on its own
RouterWords == <<"flight", "journey", "bed", "plan", "recommend", "hello", "hotel",
                 "good", "sightseeing", "eat">>

RouterVocabulary == SeqToSet(RouterWords)

RouterMessages == SeqsUpTo(RouterVocabulary, MaxMsgLen) \ {<<>>}

\* the non-empty messages (chat_with_coordinator rejects an empty message)
Messages == SeqsUpTo(Vocabulary, MaxMsgLen) \ {<<>>}

\* the sets of agents a coordinator can run with
Registries == (SUBSET AllAgents) \ {{}}

RECURSIVE Power(_, _)
Power(b, n) == IF n = 0 THEN 1 ELSE b * Power(b, n - 1)

RECURSIVE NthMessage(_, _)
\* the message of len words whose base-Len(RouterWords) digits are i
NthMessage(len, i) ==
    IF len = 0 THEN <<>>
    ELSE Append(NthMessage(len - 1, i \div Len(RouterWords)),
                RouterWords[(i % Len(RouterWords)) + 1])

RECURSIVE TabulateSelect(_, _, _)
\* the explicit table <<registry, message>> -> the router's answer and the
\* agents the round then works with, for messages number lo..hi of len words
TabulateSelect(len, lo, hi) ==
    IF lo = hi
    THEN [p \in {<<g, NthMessage(len, lo)>> : g \in Registries} |->
             [needed_agents |-> DetermineAgentsNeeded(p[2], p[1]),
              involved_agents |-> InvolvedAgents(p[2], p[1])]]
    ELSE TabulateSelect(len, lo, (lo + hi) \div 2)
         @@ TabulateSelect(len, ((lo + hi) \div 2) + 1, hi)

RECURSIVE TabulateSelectUpTo(_)
\* TabulateSelect for the messages of 1..len words
TabulateSelectUpTo(len) ==
    IF len = 0 THEN <<>>
    ELSE TabulateSelect(len, 0, Power(Len(RouterWords), len) - 1)
         @@ TabulateSelectUpTo(len - 1)

SelectTable == TabulateSelectUpTo(MaxMsgLen)

\* the agents a coordination round works with, for the messages of Spec
RoutingTable ==
    [configured \in Registries |->
        [message \in Messages |-> SelectTable[<<configured, message>>].involved_agents]]

\* ------------------------------------------------------------------ state
Rounds == 1..NumRounds

\* the requests of the thread-pool view
Requests == 1..NumRequests

\* conversation_id of a request: absent, or any identifier.  Identifiers the
\* coordinator generates are coord_<seconds>.
None == <<"none", 0>>

GeneratedId(t) == <<"coord", t>>

\* an identifier a caller sends along
CallerId == <<"c", 1>>

ConvIds == {CallerId} \cup {GeneratedId(t) : t \in 0..MaxTime}

\* what one call of an agent's start_conversation / continue_conversation does:
\* the turn answers ("ok"), or an error is raised during the turn ("error").
\* ADKBaseAgent.start_conversation catches every exception of the turn, so no
\* exception leaves the call.
Outcomes == {"ok", "error"}

vars == <<agents, now, coordinator_memory, pc, conv, involved, fut, callOutcome,
          invocations, responses, readCount, outcome, reply, late, prior, turns, seen,
          overlapped, executor, submitted, executing, user_message, needed_agents,
          involved_agents, needed_again, store_changed, plan_pc, plan_data, plan_id,
          queries, plan_fut, plan_invocations, results, comprehensive_plan, plan_status,
          conversation_memory, assessed_responses, assessed_quality, construction,
          agent_init, new_agents, served, agent_memory, turn_pc, turn_given, turn_id,
          chat_history, turn_result, sweeps, sweep_age, sweep_returned,
          assessed_summary, response_text, agent_type, summary_text, probed,
          agent_health, overall_status>>

roundVars == <<pc, conv, involved, fut, callOutcome, invocations, responses, readCount, outcome,
               reply, late, prior>>

historyVars == <<turns, seen, overlapped>>

\* the state of the coordination rounds
chatVars == <<coordinator_memory, roundVars, historyVars>>

\* the thread pools of the requests
poolVars == <<executor, submitted, executing>>

\* the router called on its own
routerVars == <<user_message, needed_agents, involved_agents, needed_again, store_changed>>

\* the /plan requests
planVars == <<plan_pc, plan_data, plan_id, queries, plan_fut, plan_invocations, results,
              comprehensive_plan, plan_status, conversation_memory>>

\* _assess_coordination_quality called on its own
qualityVars == <<assessed_responses, assessed_quality, assessed_summary>>

\* a coordinator being constructed
constructionVars == <<construction, agent_init, new_agents, served>>

\* the conversation memory of one agent and the turns sent to it
memoryVars == <<agent_memory, turn_pc, turn_given, turn_id, chat_history, turn_result,
                sweeps, sweep_age, sweep_returned>>

\* a response text being cut down to its blurb
summaryVars == <<response_text, agent_type, summary_text>>

\* the answer of a /health request
healthVars == <<probed, agent_health, overall_status>>

\* the state of the operations followed one at a time
unitVars == <<qualityVars, constructionVars, memoryVars, summaryVars, healthVars>>

\* the state the coordination rounds of Spec leave alone
nonChatVars == <<poolVars, routerVars, planVars, unitVars>>

\* ------------------------------------------------------------------ results
\* ADKBaseAgent.start_conversation: the result dictionary of a turn that
\* answered ("response") or failed inside the agent ("error")
StartConversation(a, o) ==
    IF o = "ok" THEN [kind |-> "response", agent |-> a, response |-> "text"]
    ELSE [kind |-> "error", agent |-> a]

\* a turn that answered with an empty response text
StartConversationEmpty(a) == [kind |-> "response", agent |-> a, response |-> ""]

\* _query_agent_safely answering with an ordinary response whatever the turn
\* did, so that an agent's error is lost
QueryAgentSafelyMasksError(a, o) ==
    [kind |-> "response", agent |-> a, response |-> "text"]

\* _query_agent_safely: the agent's result, or the error dictionary built from
\* the exception the call raised
QueryAgentSafely(a, o) ==
    IF o = "raise" THEN [kind |-> "error", agent |-> a]
    ELSE StartConversation(a, o)

\* the entries of coordinator_memory
NoEntry == [kind |-> "absent", primary_agent |-> "none", involved_agents |-> {},
            last_update |-> 0, message_count |-> 0]

SingleEntry(a) == [kind |-> "single", primary_agent |-> a, involved_agents |-> {},
                   last_update |-> 0, message_count |-> 0]

MultiEntry(names, t, n) == [kind |-> "multi", primary_agent |-> "none",
                            involved_agents |-> names, last_update |-> t,
                            message_count |-> n]

\* conversation_id in self.coordinator_memory
InMemory(c) == coordinator_memory[c].kind # "absent"

\* the path _query_agent_safely takes for one agent
QueryPath(a, c) ==
    IF InMemory(c) /\ a \in coordinator_memory[c].involved_agents
    THEN "continue" ELSE "start"

\* the path _coordinate_conversation takes for its single agent
SinglePath(c) == IF InMemory(c) THEN "continue" ELSE "start"

\* _generate_coordinator_summary: the parts the summary string is made of
GenerateCoordinatorSummary(resp) ==
    LET successful == {a \in DOMAIN resp :
                          resp[a].kind = "response" /\ resp[a].response # ""}
        failed == {a \in DOMAIN resp : resp[a].kind = "error"}
    IN  IF successful # {}
        THEN [blurbs |-> successful, failure_note |-> failed,
              coordination_note |-> Cardinality(successful) > 1, generic |-> FALSE]
        ELSE [blurbs |-> {}, failure_note |-> {}, coordination_note |-> FALSE,
              generic |-> TRUE]

\* n / d rounded to the nearest integer, a tie going to the even neighbour
RoundedRatio(n, d) ==
    LET q == n \div d
        r == n % d
    IN  IF 2 * r < d THEN q
        ELSE IF 2 * r > d THEN q + 1
        ELSE IF q % 2 = 0 THEN q ELSE q + 1

\* coordination_effectiveness with the tiers starting above 80 and above 50
EffectivenessAbove(successful, total) ==
    IF total = 0 THEN "low"
    ELSE IF successful * 100 > 80 * total THEN "high"
    ELSE IF successful * 100 > 50 * total THEN "medium"
    ELSE "low"

\* coordination_effectiveness, from quality_score = successful / total * 100
Effectiveness(successful, total) ==
    IF total = 0 THEN "low"
    ELSE IF successful * 100 >= 80 * total THEN "high"
    ELSE IF successful * 100 >= 50 * total THEN "medium"
    ELSE "low"

\* success_rate = f"{quality_score:.1f}%": the score printed with one decimal,
\* kept in tenths of a percent
SuccessRate(successful, total) ==
    IF total > 0 THEN RoundedRatio(successful * 1000, total) ELSE 0

\* _assess_coordination_quality
AssessCoordinationQuality(resp) ==
    LET total == Cardinality(DOMAIN resp)
        successful == Cardinality({a \in DOMAIN resp : resp[a].kind = "response"})
    IN  [success_rate |-> SuccessRate(successful, total),
         successful_agents |-> successful, failed_agents |-> total - successful,
         coordination_effectiveness |-> Effectiveness(successful, total)]

NoSummary == [blurbs |-> {}, failure_note |-> {}, coordination_note |-> FALSE,
              generic |-> FALSE]

NoQuality == [success_rate |-> 0, successful_agents |-> 0, failed_agents |-> 0,
              coordination_effectiveness |-> "none"]

NoReply == [multi_agent_response |-> FALSE, agent_responses |-> <<>>,
            summary |-> NoSummary, coordination_quality |-> NoQuality]

\* the coordinated_response of _multi_agent_conversation
CoordinatedResponse(resp) ==
    [multi_agent_response |-> TRUE, agent_responses |-> resp,
     summary |-> GenerateCoordinatorSummary(resp),
     coordination_quality |-> AssessCoordinationQuality(resp)]

\* the answer of a single-agent round: the agent's own result
SingleResponse(a, result) ==
    [multi_agent_response |-> FALSE, agent_responses |-> (a :> result),
     summary |-> NoSummary, coordination_quality |-> NoQuality]

Active(r) == pc[r] \notin {"idle", "done"}

\* no second call of the router was made
NotCalled == [called |-> FALSE, needed_agents |-> <<>>, store_changed |-> FALSE]

\* ------------------------------------------------------------------ plans
Plans == 1..NumPlans

\* what a /plan request carries.  interests and travel_style only change the
\* wording of the queries and are left out.
Destinations == {"", "Tokyo"}

DaysValues == {0, 3, 31}

Budgets == {99, 180, 2000}

NoData == [destination |-> "", days |-> 0, budget |-> 0]

\* plan_id = f"plan_{int(time.time())}"
PlanId(t) == <<"plan", t>>

PlanIds == {PlanId(t) : t \in 0..MaxTime}

\* the validation of comprehensive_trip_planning with the check of days left out
ValidationErrorWithoutDays(destination, days, budget) ==
    IF destination = "" THEN "Destination is required"
    ELSE IF budget < 100 THEN "Budget must be at least $100"
    ELSE ""

\* the validation of comprehensive_trip_planning, in the order of its checks:
\* the error it answers 400 with, or "" when the parameters pass
ValidationError(destination, days, budget) ==
    IF destination = "" THEN "Destination is required"
    ELSE IF days < 1 \/ days > 30 THEN "Days must be between 1 and 30"
    ELSE IF budget < 100 THEN "Budget must be at least $100"
    ELSE ""

\* the largest power of two that is at most n
RECURSIVE FloorPowerOfTwo(_)
FloorPowerOfTwo(n) == IF n < 2 THEN 1 ELSE 2 * FloorPowerOfTwo(n \div 2)

\* int(budget * 0.4), budget being a float with an integer value.  The double
\* nearest 0.4 lies above 0.4 by less than 2^-54, so the product never falls
\* below budget * 2 / 5 and never reaches the next integer.
FlightBudget(budget) == (2 * budget) \div 5

\* int(budget * 0.35).  The double nearest 0.35 is 0.35 - 0.4 * 2^-54, so the
\* exact product lies (8N/7) * 2^-54 below N = budget * 7 / 20.  When N is an
\* integer the product is rounded to the double nearest to it: to N itself
\* unless it lies more than half a spacing 2^(e-52) of the doubles below N away,
\* 2^e being the largest power of two up to N; it is then the double just below
\* N, which int() truncates to N - 1.
HotelBudget(budget) ==
    LET N == (7 * budget) \div 20
    IN  IF (7 * budget) % 20 # 0 \/ N = 0 THEN N
        ELSE IF 4 * N > 7 * FloorPowerOfTwo(N) THEN N - 1
        ELSE N

\* int(budget * 0.25): 0.25 is a double, the product is exact
ActivityBudget(budget) == budget \div 4

\* the allocation divided by the days instead of the nights
HotelPerNightByDays(budget, days) ==
    HotelBudget(budget) \div (IF days > 1 THEN days ELSE 1)

\* hotel_per_night = hotel_budget // max(days - 1, 1)
HotelPerNight(budget, days) ==
    HotelBudget(budget) \div (IF days - 1 > 1 THEN days - 1 ELSE 1)

\* _create_specialized_queries: one query per configured agent, here the
\* figures its text is made of
CreateSpecializedQueries(destination, days, budget, configured) ==
    [a \in configured |->
        IF a = "flight"
        THEN [destination |-> destination, days |-> days,
              budget |-> FlightBudget(budget)]
        ELSE IF a = "hotel"
        THEN [destination |-> destination, days |-> days - 1,
              budget |-> HotelPerNight(budget, days)]
        ELSE [destination |-> destination, days |-> days,
              budget |-> ActivityBudget(budget)]]

\* the recommendations of _analyze_budget_breakdown
BudgetRecommendations(total_budget) ==
    IF total_budget >= 3000 THEN "premium"
    ELSE IF total_budget >= 1500 THEN "mid-range"
    ELSE "budget-conscious"

\* _analyze_budget_breakdown
AnalyzeBudgetBreakdown(total_budget) ==
    [total_budget |-> total_budget,
     allocation |->
         [flights |-> [allocated |-> FlightBudget(total_budget), percentage |-> 40],
          accommodation |-> [allocated |-> HotelBudget(total_budget), percentage |-> 35],
          activities |-> [allocated |-> ActivityBudget(total_budget), percentage |-> 25]],
     recommendations |-> BudgetRecommendations(total_budget)]

\* _execute_planning_query: the result of agent.start_conversation(query, plan_id)
ExecutePlanningQuery(a, o) == StartConversation(a, o)

\* the agents of a result mapping whose result carries no "error"
WithoutError(res) == {a \in DOMAIN res : res[a].kind # "error"}

\* the agents of a result mapping whose result carries a "response"
WithResponse(res) == {a \in DOMAIN res : res[a].kind = "response"}

\* overall_rating, from completeness = successful_results / total_agents * 100
OverallRating(successful, total) ==
    IF total = 0 THEN "Needs Improvement"
    ELSE IF successful * 100 >= 90 * total THEN "Excellent"
    ELSE IF successful * 100 >= 70 * total THEN "Good"
    ELSE IF successful * 100 >= 50 * total THEN "Fair"
    ELSE "Needs Improvement"

\* _assess_plan_quality counting every result as a success
AssessPlanQualityCountingAll(res, configured) ==
    LET total_agents == Cardinality(configured)
        successful_results == Cardinality(DOMAIN res)
    IN  [completeness_percentage |->
             IF total_agents > 0
             THEN RoundedRatio(successful_results * 1000, total_agents) ELSE 0,
         successful_components |-> successful_results,
         total_components |-> total_agents,
         overall_rating |-> OverallRating(successful_results, total_agents),
         recommendations |-> {}]

\* _assess_plan_quality.  completeness_percentage is round(completeness, 1):
\* it is kept in tenths of a percent.
AssessPlanQuality(res, configured) ==
    LET total_agents == Cardinality(configured)
        successful_results == Cardinality(WithoutError(res))
    IN  [completeness_percentage |->
             IF total_agents > 0
             THEN RoundedRatio(successful_results * 1000, total_agents) ELSE 0,
         successful_components |-> successful_results,
         total_components |-> total_agents,
         overall_rating |-> OverallRating(successful_results, total_agents),
         recommendations |->
             IF total_agents > 0 /\ successful_results = total_agents
             THEN {} ELSE DOMAIN res \ WithoutError(res)]

\* _create_plan_summary: the parts the summary string is made of
CreatePlanSummary(res, destination, days) ==
    LET successful_agents == Cardinality(WithResponse(res))
    IN  [destination |-> destination, days |-> days,
         detail_summary |->
             IF successful_agents >= 3 THEN "flight, accommodation and activities"
             ELSE IF successful_agents >= 2 THEN "recommendations from 2 agents"
             ELSE "partial recommendations"]

\* datetime.datetime.now().month: the clock starts in the last second of
\* February
CurrentMonth(t) == IF t = 0 THEN 2 ELSE 3

\* the first n elements of a list: list[:n]
Truncate(list, n) == SubSeq(list, 1, IF Len(list) < n THEN Len(list) ELSE n)

\* has_<agent>_data: agent in results and "error" not in results[agent]
HasData(res, a) == a \in DOMAIN res /\ res[a].kind # "error"

\* the insights _generate_intelligent_insights collects, before it cuts the list
CollectedInsights(res, budget, t) ==
    (IF HasData(res, "flight") /\ HasData(res, "hotel")
     THEN <<"travel style suits the destination">> ELSE <<>>)
    \o (IF budget >= 2000 THEN <<"budget allows premium experiences">>
        ELSE IF budget <= 800 THEN <<"budget-conscious planning">>
        ELSE <<>>)
    \o (IF HasData(res, "activity") THEN <<"book popular attractions in advance">>
        ELSE <<>>)
    \o (IF CurrentMonth(t) \in {12, 1, 2} THEN <<"winter travel considerations">>
        ELSE IF CurrentMonth(t) \in {6, 7, 8} THEN <<"summer travel peak season">>
        ELSE <<>>)

\* _generate_intelligent_insights returning every insight it collected
GenerateIntelligentInsightsUncut(res, budget, t) == CollectedInsights(res, budget, t)

\* _generate_intelligent_insights: insights[:3]
GenerateIntelligentInsights(res, budget, t) ==
    Truncate(CollectedInsights(res, budget, t), 3)

\* the universal steps of _generate_smart_next_steps
UniversalSteps ==
    <<"check visa and passport requirements", "review travel insurance options",
      "notify banks of travel plans", "check health and safety recommendations">>

\* the steps of the agents whose result carries no error
AgentSteps(res) ==
    (IF HasData(res, "flight")
     THEN <<"review and compare flight options", "book preferred flights">>
     ELSE <<>>)
    \o (IF HasData(res, "hotel")
        THEN <<"confirm hotel availability and book", "check hotel cancellation policies">>
        ELSE <<>>)
    \o (IF HasData(res, "activity")
        THEN <<"book time-sensitive activities", "download offline maps">>
        ELSE <<>>)

\* _generate_smart_next_steps with no universal steps
GenerateSmartNextStepsWithoutUniversal(res) == Truncate(AgentSteps(res), 6)

\* _generate_smart_next_steps: steps[:6]
GenerateSmartNextSteps(res) == Truncate(AgentSteps(res) \o UniversalSteps, 6)

\* the comprehensive_plan of _generate_comprehensive_plan, compiled at time t
ComprehensivePlan(id, data, res, configured, t) ==
    [plan_id |-> id, destination |-> data.destination, duration_days |-> data.days,
     budget_usd |-> data.budget, agent_recommendations |-> res,
     coordinator_summary |-> CreatePlanSummary(res, data.destination, data.days),
     intelligent_insights |-> GenerateIntelligentInsights(res, data.budget, t),
     next_steps |-> GenerateSmartNextSteps(res),
     budget_breakdown |-> AnalyzeBudgetBreakdown(data.budget),
     generated_at |-> t,
     plan_quality |-> AssessPlanQuality(res, configured)]

\* no plan was compiled
NoPlan ==
    [plan_id |-> None, destination |-> "", duration_days |-> 0, budget_usd |-> 0,
     agent_recommendations |-> <<>>,
     coordinator_summary |-> CreatePlanSummary(<<>>, "", 0),
     intelligent_insights |-> <<>>, next_steps |-> <<>>,
     budget_breakdown |-> AnalyzeBudgetBreakdown(0),
     generated_at |-> 0,
     plan_quality |-> AssessPlanQuality(<<>>, {})]

\* ------------------------------------------------------------------ agent memory
Turns == 1..NumTurns

\* max_age_hours of a call of clear_old_conversations: an hour, or the default
SweepAges == {1, 24}

\* the clock readings of a behaviour that follows an agent's memory
Hours == {h * 3600 : h \in 0..MaxHours}

\* conversation_id = f"{self.agent_name}_{int(time.time())}"
AgentGeneratedId(t) == <<"agent", t>>

\* the conversation ids of the agent's memory
AgentConvIds == {CallerId} \cup {AgentGeneratedId(t) : t \in Hours}

\* last_update of an entry that start_conversation created and no turn completed
Unset == 0 - 1

\* no entry under the id
NoConversation == [present |-> FALSE, history |-> <<>>, created_at |-> 0,
                   last_update |-> Unset]

\* the entry start_conversation creates for an id it does not find
NewConversation(t) == [present |-> TRUE, history |-> <<>>, created_at |-> t,
                       last_update |-> Unset]

\* no result was returned
NoResult == [kind |-> "none", conversation_id |-> None]

\* the function calls the model asks for during one turn
FunctionCalls == {0, 2}

\* the entries one turn adds to the session's history: the message and the
\* answer, and for every function call the function response and its answer
Exchanges(t, calls) == [i \in 1 .. (2 + 2 * calls) |-> <<t, i>>]

\* the first n elements of a list
First(list, n) == IF Len(list) <= n THEN list ELSE SubSeq(list, 1, n)

\* the last n elements of a list: list[-n:]
Last(list, n) == IF Len(list) <= n THEN list ELSE SubSeq(list, Len(list) - n + 1, Len(list))

\* conversation_id of a turn that ignores the id the caller sent
ConversationIdAlwaysNew(given, t) == AgentGeneratedId(t)

\* conversation_id of a turn: the id the caller sent, or a generated one
ConversationId(given, t) == IF given = None THEN AgentGeneratedId(t) ELSE given

\* clear_old_conversations: current_time - last_update > max_age_seconds,
\* last_update read with the default 0.  The clock is far from the epoch, so
\* an entry without last_update is older than any max_age_hours.
OldConversations(memory, max_age_hours, t) ==
    {c \in AgentConvIds :
        /\ memory[c].present
        /\ \/ memory[c].last_update = Unset
           \/ t - memory[c].last_update > max_age_hours * 3600}

\* ------------------------------------------------------------------ blurbs
\* A response text is the sequence of the pieces split('. ') cuts it into, each
\* with its length after strip() and the keywords that occur in it.
MaxSentences == 3
Sentences == [len : {60, 100, 181}, words : SUBSET {"flight", "$"}]
ResponseTexts == SeqsUpTo(Sentences, MaxSentences) \ {<<>>}
AgentTypes == {"Flight", "Activity"}

\* priority_keywords.get(agent_type, [])
PriorityKeywords(type) ==
    IF type = "Flight"
    THEN {"flight", "airline", "price", "$", "departure", "arrival"}
    ELSE IF type = "Hotel"
    THEN {"hotel", "room", "night", "$", "location", "amenities"}
    ELSE IF type = "Activity"
    THEN {"activity", "restaurant", "experience", "recommendation"}
    ELSE {}

RECURSIVE CharCount(_, _, _)
\* the lengths of the sentences parts[k..] of the text, added up
CharCount(text, parts, k) ==
    IF k > Len(parts) THEN 0
    ELSE text[parts[k]].len + CharCount(text, parts, k + 1)

\* len(response_text): the sentences and the '. ' between them
TextLength(text) ==
    CharCount(text, [i \in DOMAIN text |-> i], 1) + 2 * (Len(text) - 1)

\* the number of priority keywords present in the sentence
SentenceScore(sentence, type) ==
    Cardinality(sentence.words \cap PriorityKeywords(type))

\* the sentences left in the order of the text
ScoredSentencesUnsorted(text, type) == [k \in DOMAIN text |-> k]

\* scored_sentences after sort(key=score, reverse=True): the positions of the
\* sentences by descending score, equal scores in the order of the text
ScoredSentences(text, type) ==
    LET score(i) == SentenceScore(text[i], type)
        before(i) == {j \in DOMAIN text :
                         \/ score(j) > score(i)
                         \/ score(j) = score(i) /\ j < i}
    IN  [k \in DOMAIN text |->
            CHOOSE i \in DOMAIN text : Cardinality(before(i)) = k - 1]

RECURSIVE SummaryParts(_, _, _, _)
\* the loop over scored_sentences: a sentence is appended while it fits into
\* 180 characters, the first one that does not fit ends the loop
SummaryParts(text, order, k, char_count) ==
    IF k > Len(order) THEN <<>>
    ELSE IF char_count + text[order[k]].len <= 180
    THEN <<order[k]>> \o SummaryParts(text, order, k + 1,
                                       char_count + text[order[k]].len)
    ELSE <<>>

NoBlurb == [kind |-> "none", parts |-> <<>>, chars |-> 0, ellipsis |-> FALSE]

\* _extract_key_info: the whole text when it has at most 200 characters, else
\* the sentences of summary_parts joined by '. ', else the first 180
\* characters; chars counts the characters before the '...'
ExtractKeyInfo(text, type) ==
    IF TextLength(text) <= 200
    THEN [kind |-> "whole", parts |-> <<>>, chars |-> TextLength(text),
          ellipsis |-> FALSE]
    ELSE LET summary_parts == SummaryParts(text, ScoredSentences(text, type), 1, 0)
             char_count == CharCount(text, summary_parts, 1)
         IN  IF summary_parts # <<>>
             THEN [kind |-> "sentences", parts |-> summary_parts,
                   chars |-> char_count + 2 * (Len(summary_parts) - 1),
                   ellipsis |-> char_count > 150]
             ELSE [kind |-> "prefix", parts |-> <<>>, chars |-> 180,
                   ellipsis |-> TextLength(text) > 180]

\* ------------------------------------------------------------------ health
\* what one agent's health_check can do: raise, or return after its Vertex AI
\* test and its Kubernetes test
HealthProbes ==
    [raises : {FALSE}, vertex_ai : {"connected", "error"},
     kubernetes : {"connected", "error", "not_available"}]
    \cup {[raises |-> TRUE, vertex_ai |-> "error", kubernetes |-> "error"]}

\* ADKBaseAgent.health_check: a failed Vertex AI test makes the status
\* degraded, a failed Kubernetes test is only reported
AgentHealthCheck(probe) ==
    [status |-> IF probe.vertex_ai = "connected" THEN "healthy" ELSE "degraded",
     vertex_ai_status |-> probe.vertex_ai,
     kubernetes_status |-> probe.kubernetes]

\* overall_status with an agent whose check raised left out
OverallStatusOfReturned(health, configured) ==
    IF \E a \in configured : health[a].status = "degraded"
    THEN "degraded" ELSE "healthy"

\* overall_status after the loop: it starts as healthy and is set to degraded
\* at every agent whose status is not healthy or whose check raised
OverallStatus(health, configured) ==
    IF \E a \in configured : health[a].status # "healthy"
    THEN "degraded" ELSE "healthy"

\* ------------------------------------------------------------------ Init
Init ==
    /\ agents \in Registries
    /\ now = 0
    /\ coordinator_memory = [c \in ConvIds |-> NoEntry]
    /\ pc = [r \in Rounds |-> "idle"]
    /\ conv = [r \in Rounds |-> None]
    /\ involved = [r \in Rounds |-> {}]
    /\ fut = [r \in Rounds |-> [a \in AllAgents |-> "none"]]
    /\ callOutcome = [r \in Rounds |-> [a \in AllAgents |-> "none"]]
    /\ invocations = [r \in Rounds |-> [a \in AllAgents |-> 0]]
    /\ responses = [r \in Rounds |-> <<>>]
    /\ readCount = [r \in Rounds |-> 0]
    /\ outcome = [r \in Rounds |-> "none"]
    /\ reply = [r \in Rounds |-> NoReply]
    /\ late = [r \in Rounds |-> {}]
    /\ prior = [r \in Rounds |-> {}]
    /\ turns = [c \in ConvIds |-> 0]
    /\ seen = [c \in ConvIds |-> {}]
    /\ overlapped = [c \in ConvIds |-> FALSE]
    /\ executor = [q \in Requests |-> 0]
    /\ submitted = [q \in Requests |-> 0]
    /\ executing = [q \in Requests |-> 0]
    /\ user_message = <<>>
    /\ needed_agents = <<>>
    /\ involved_agents = <<>>
    /\ needed_again = NotCalled
    /\ store_changed = FALSE
    /\ plan_pc = [p \in Plans |-> "idle"]
    /\ plan_data = [p \in Plans |-> NoData]
    /\ plan_id = [p \in Plans |-> None]
    /\ queries = [p \in Plans |-> <<>>]
    /\ plan_fut = [p \in Plans |-> [a \in AllAgents |-> "none"]]
    /\ plan_invocations = [p \in Plans |-> [a \in AllAgents |-> 0]]
    /\ results = [p \in Plans |-> <<>>]
    /\ comprehensive_plan = [p \in Plans |-> NoPlan]
    /\ plan_status = [p \in Plans |-> 0]
    /\ conversation_memory = [a \in AllAgents |-> {}]
    /\ assessed_responses = <<>>
    /\ assessed_quality = NoQuality
    /\ construction = "initialising"
    /\ agent_init = [a \in AllAgents |-> "pending"]
    /\ new_agents = {}
    /\ served = 0
    /\ agent_memory = [c \in AgentConvIds |-> NoConversation]
    /\ turn_pc = [t \in Turns |-> "idle"]
    /\ turn_given = [t \in Turns |-> None]
    /\ turn_id = [t \in Turns |-> None]
    /\ chat_history = [t \in Turns |-> <<>>]
    /\ turn_result = [t \in Turns |-> NoResult]
    /\ sweeps = 0
    /\ sweep_age = 0
    /\ sweep_returned = 0
    /\ assessed_summary = NoSummary
    /\ response_text = <<>>
    /\ agent_type = "none"
    /\ summary_text = NoBlurb
    /\ probed = <<>>
    /\ agent_health = [a \in AllAgents |-> [status |-> "none"]]
    /\ overall_status = "none"

\* ------------------------------------------------------------------ actions
\* chat_with_coordinator -> _coordinate_conversation: a request arrives with a
\* message and an optional conversation id.  The router picks the agents; one
\* agent is called directly, several are handed to _multi_agent_conversation,
\* which submits one _query_agent_safely per agent to its thread pool.
Coordinate(r, message, cid) ==
    LET c == IF cid = None THEN GeneratedId(now) ELSE cid
        chosen == RoutingTable[agents][message]
    IN  /\ pc[r] = "idle"
        /\ r > 1 => pc[r - 1] # "idle"
        /\ conv' = [conv EXCEPT ![r] = c]
        /\ involved' = [involved EXCEPT ![r] = SeqToSet(chosen)]
        /\ prior' = [prior EXCEPT ![r] = seen[c]]
        /\ overlapped' = [overlapped EXCEPT ![c] =
                             @ \/ \E q \in Rounds : Active(q) /\ conv[q] = c]
        /\ IF Len(chosen) = 1
           THEN /\ pc' = [pc EXCEPT ![r] = "single"]
                /\ fut' = [fut EXCEPT ![r][chosen[1]] = SinglePath(c)]
                /\ invocations' = [invocations EXCEPT ![r][chosen[1]] = @ + 1]
           ELSE /\ pc' = [pc EXCEPT ![r] = "collect"]
                /\ UNCHANGED invocations
                /\ fut' = [fut EXCEPT ![r] =
                              [a \in AllAgents |->
                                  IF a \in SeqToSet(chosen) THEN "queued" ELSE "none"]]
        /\ UNCHANGED nonChatVars
        /\ UNCHANGED <<agents, now, coordinator_memory, callOutcome, responses,
                       readCount, outcome, reply, late, turns, seen>>

\* the single agent's call comes back: the handler stores the primary agent
\* after a start and returns the agent's result
SingleReturns(r, o) ==
    LET c == conv[r]
        a == CHOOSE x \in involved[r] : TRUE
    IN  /\ pc[r] = "single"
        /\ callOutcome' = [callOutcome EXCEPT ![r][a] = o]
        /\ pc' = [pc EXCEPT ![r] = "done"]
        /\ outcome' = [outcome EXCEPT ![r] = "response"]
        /\ reply' = [reply EXCEPT ![r] = SingleResponse(a, StartConversation(a, o))]
        /\ coordinator_memory' =
               IF fut[r][a] = "start"
               THEN [coordinator_memory EXCEPT ![c] = SingleEntry(a)]
               ELSE coordinator_memory
        /\ fut' = [fut EXCEPT ![r][a] = "done"]
        /\ turns' = [turns EXCEPT ![c] = @ + 1]
        /\ seen' = [seen EXCEPT ![c] = @ \cup {a}]
        /\ UNCHANGED nonChatVars
        /\ UNCHANGED <<agents, now, conv, involved, invocations, responses, readCount,
                       late, prior, overlapped>>

\* a pool thread begins _query_agent_safely: it looks the conversation up and
\* calls the agent's continue or start method
WorkerStart(r, a) ==
    /\ pc[r] \in {"collect", "shutdown"}
    /\ fut[r][a] = "queued"
    /\ fut' = [fut EXCEPT ![r][a] = QueryPath(a, conv[r])]
    /\ invocations' = [invocations EXCEPT ![r][a] = @ + 1]
    /\ UNCHANGED nonChatVars
    /\ UNCHANGED <<agents, now, coordinator_memory, pc, conv, involved, callOutcome,
                   responses, readCount, outcome, reply, late, prior>>
    /\ UNCHANGED historyVars

\* the agent's call ends and the future completes while the round is still
\* collecting: as_completed yields the future and its result is recorded
AgentReturns(r, a, o) ==
    /\ pc[r] = "collect"
    /\ fut[r][a] \in {"start", "continue"}
    /\ fut' = [fut EXCEPT ![r][a] = "done"]
    /\ callOutcome' = [callOutcome EXCEPT ![r][a] = o]
    /\ responses' = [responses EXCEPT ![r] = (a :> QueryAgentSafely(a, o)) @@ @]
    /\ UNCHANGED nonChatVars
    /\ UNCHANGED <<agents, now, coordinator_memory, pc, conv, involved, invocations,
                   readCount, outcome, reply, late, prior>>
    /\ UNCHANGED historyVars

\* the agent's call ends after the deadline: nobody reads the future's result
LateReturn(r, a) ==
    /\ pc[r] = "shutdown"
    /\ fut[r][a] \in {"start", "continue"}
    /\ fut' = [fut EXCEPT ![r][a] = "done"]
    /\ UNCHANGED nonChatVars
    /\ UNCHANGED <<agents, now, coordinator_memory, pc, conv, involved, callOutcome,
                   invocations, responses, readCount, outcome, reply, late, prior>>
    /\ UNCHANGED historyVars

\* as_completed(timeout=30) raises TimeoutError while a future is unfinished;
\* leaving the with block then waits for the pool to shut down
Timeout(r) ==
    /\ pc[r] = "collect"
    /\ \E a \in involved[r] : fut[r][a] # "done"
    /\ late' = [late EXCEPT ![r] = {a \in involved[r] : fut[r][a] # "done"}]
    /\ pc' = [pc EXCEPT ![r] = "shutdown"]
    /\ UNCHANGED nonChatVars
    /\ UNCHANGED <<agents, now, coordinator_memory, conv, involved, fut, callOutcome,
                   invocations, responses, readCount, outcome, reply, prior>>
    /\ UNCHANGED historyVars

\* executor.shutdown(wait=True) returns once every worker has finished; the
\* TimeoutError then reaches chat_with_coordinator, which answers 500
ShutdownDone(r) ==
    /\ pc[r] = "shutdown"
    /\ \A a \in involved[r] : fut[r][a] = "done"
    /\ pc' = [pc EXCEPT ![r] = "done"]
    /\ outcome' = [outcome EXCEPT ![r] = "error500"]
    /\ UNCHANGED nonChatVars
    /\ UNCHANGED <<agents, now, coordinator_memory, conv, involved, fut, callOutcome,
                   invocations, responses, readCount, reply, late, prior>>
    /\ UNCHANGED historyVars

\* the new memory entry is built while futures of the round are still pending
ReadMemoryEarly(r) ==
    /\ pc[r] = "collect"
    /\ readCount' = [readCount EXCEPT ![r] = coordinator_memory[conv[r]].message_count]
    /\ pc' = [pc EXCEPT ![r] = "update"]
    /\ UNCHANGED nonChatVars
    /\ UNCHANGED <<agents, now, coordinator_memory, conv, involved, fut, callOutcome,
                   invocations, responses, outcome, reply, late, prior>>
    /\ UNCHANGED historyVars

\* every future was collected: the new memory entry is built, which reads the
\* stored message_count
ReadMemory(r) ==
    /\ pc[r] = "collect"
    /\ \A a \in involved[r] : fut[r][a] = "done"
    /\ readCount' = [readCount EXCEPT ![r] = coordinator_memory[conv[r]].message_count]
    /\ pc' = [pc EXCEPT ![r] = "update"]
    /\ UNCHANGED nonChatVars
    /\ UNCHANGED <<agents, now, coordinator_memory, conv, involved, fut, callOutcome,
                   invocations, responses, outcome, reply, late, prior>>
    /\ UNCHANGED historyVars

\* the entry is stored and the coordinated response is returned
WriteMemory(r) ==
    LET c == conv[r]
    IN  /\ pc[r] = "update"
        /\ coordinator_memory' = [coordinator_memory EXCEPT ![c] =
                                     MultiEntry(involved[r], now, readCount[r] + 1)]
        /\ reply' = [reply EXCEPT ![r] = CoordinatedResponse(responses[r])]
        /\ outcome' = [outcome EXCEPT ![r] = "response"]
        /\ pc' = [pc EXCEPT ![r] = "done"]
        /\ turns' = [turns EXCEPT ![c] = @ + 1]
        /\ seen' = [seen EXCEPT ![c] = @ \cup involved[r]]
        /\ UNCHANGED nonChatVars
        /\ UNCHANGED <<agents, now, conv, involved, fut, callOutcome, invocations,
                       responses, readCount, late, prior, overlapped>>

\* a second passes
Tick ==
    /\ now < MaxTime
    /\ now' = now + 1
    /\ UNCHANGED nonChatVars
    /\ UNCHANGED <<agents, coordinator_memory>>
    /\ UNCHANGED roundVars
    /\ UNCHANGED historyVars

\* the steps the coordinator's own threads take
CoordinatorNext ==
    \E r \in Rounds :
        \/ \E a \in AllAgents : WorkerStart(r, a)
        \/ Timeout(r)
        \/ ShutdownDone(r)
        \/ ReadMemory(r)
        \/ WriteMemory(r)

\* the steps of the callers, the agents and the clock
EnvironmentNext ==
    \/ \E r \in Rounds, message \in Messages, cid \in {None, CallerId} :
           Coordinate(r, message, cid)
    \/ \E r \in Rounds, o \in Outcomes : SingleReturns(r, o)
    \/ \E r \in Rounds, a \in AllAgents, o \in Outcomes : AgentReturns(r, a, o)
    \/ \E r \in Rounds, a \in AllAgents : LateReturn(r, a)
    \/ Tick

Next == CoordinatorNext \/ EnvironmentNext

Spec == Init /\ [][Next]_vars

\* The coordinator's threads keep running; nothing makes an agent's call end.
FairSpec == Spec /\ WF_vars(CoordinatorNext)

\* ------------------------------------------------------------------ thread pools
\* self.executor = ThreadPoolExecutor(max_workers=10): the pool __init__ creates.
\* No request ever submits to it.
max_workers == 10

RECURSIVE SumUpTo(_, _)
\* f[1] + ... + f[n]
SumUpTo(f, n) == IF n = 0 THEN 0 ELSE f[n] + SumUpTo(f, n - 1)

\* _multi_agent_conversation: the round creates its own
\* ThreadPoolExecutor(max_workers=len(agents)) and submits one
\* _query_agent_safely per selected agent
MultiAgentPool(q, message) ==
    LET chosen == RoutingTable[agents][message]
    IN  /\ executor[q] = 0
        /\ Len(chosen) > 1
        /\ executor' = [executor EXCEPT ![q] = Len(chosen)]
        /\ submitted' = [submitted EXCEPT ![q] = Len(chosen)]
        /\ UNCHANGED <<agents, now, executing>>
        /\ UNCHANGED <<chatVars, routerVars, planVars, unitVars>>

\* _generate_comprehensive_plan: the plan creates its own
\* ThreadPoolExecutor(max_workers=len(self.agents)) and submits one
\* _execute_planning_query per configured agent
PlanPool(q) ==
    /\ executor[q] = 0
    /\ executor' = [executor EXCEPT ![q] = Cardinality(agents)]
    /\ submitted' = [submitted EXCEPT ![q] = Cardinality(agents)]
    /\ UNCHANGED <<agents, now, executing>>
    /\ UNCHANGED <<chatVars, routerVars, planVars, unitVars>>

\* a thread of the request's pool takes a submitted call and runs it
PoolWorkerStart(q) ==
    /\ submitted[q] > 0
    /\ executing[q] < executor[q]
    /\ submitted' = [submitted EXCEPT ![q] = @ - 1]
    /\ executing' = [executing EXCEPT ![q] = @ + 1]
    /\ UNCHANGED <<agents, now, executor>>
    /\ UNCHANGED <<chatVars, routerVars, planVars, unitVars>>

\* the agent's call returns and the pool thread is idle again
PoolWorkerEnd(q) ==
    /\ executing[q] > 0
    /\ executing' = [executing EXCEPT ![q] = @ - 1]
    /\ UNCHANGED <<agents, now, executor, submitted>>
    /\ UNCHANGED <<chatVars, routerVars, planVars, unitVars>>

\* leaving the with block: shutdown(wait=True) returns when no call is left
PoolShutdown(q) ==
    /\ executor[q] > 0
    /\ submitted[q] = 0
    /\ executing[q] = 0
    /\ executor' = [executor EXCEPT ![q] = 0]
    /\ UNCHANGED <<agents, now, submitted, executing>>
    /\ UNCHANGED <<chatVars, routerVars, planVars, unitVars>>

PoolNext ==
    \E q \in Requests :
        \/ \E message \in Messages : MultiAgentPool(q, message)
        \/ PlanPool(q)
        \/ PoolWorkerStart(q)
        \/ PoolWorkerEnd(q)
        \/ PoolShutdown(q)

\* the requests seen through the thread pools they create
PoolSpec == Init /\ [][PoolNext]_vars

\* ------------------------------------------------------------------ router calls
\* _coordinate_conversation up to its choice of agents: the router is called
\* with the message, and every configured agent is taken when it names none.
\* A behaviour follows one message: its routing and the repetitions of it.
Select(message) ==
    /\ user_message = <<>>
    /\ user_message' = message
    /\ needed_agents' = DetermineAgentsNeeded(message, agents)
    /\ involved_agents' = InvolvedAgents(message, agents)
    /\ needed_again' = NotCalled
    /\ store_changed' = FALSE
    /\ UNCHANGED <<agents, now, chatVars, poolVars, planVars, unitVars>>

\* a later request carries the same message: the router is called again
SelectAgain ==
    /\ user_message # <<>>
    /\ ~needed_again.called
    /\ needed_again' = [called |-> TRUE,
                        needed_agents |-> DetermineAgentsNeeded(user_message, agents),
                        store_changed |-> store_changed]
    /\ UNCHANGED <<agents, now, chatVars, poolVars, planVars, unitVars, user_message,
                   needed_agents, involved_agents, store_changed>>

\* between two calls of the router a single-agent round of another request
\* stores its entry: coordinator_memory[conversation_id] = {"primary_agent": ...}
StorePrimaryAgent(c, a) ==
    /\ user_message # <<>>
    /\ coordinator_memory[c] # SingleEntry(a)
    /\ coordinator_memory' = [coordinator_memory EXCEPT ![c] = SingleEntry(a)]
    /\ store_changed' = TRUE
    /\ UNCHANGED <<agents, now, poolVars, user_message, needed_agents, involved_agents,
                   needed_again>>
    /\ UNCHANGED <<roundVars, historyVars, planVars, unitVars>>

RouterNext ==
    \/ \E message \in RouterMessages : Select(message)
    \/ SelectAgain
    \/ \E a \in agents : StorePrimaryAgent(CallerId, a)

\* the router called with every message, under every registry
RouterSpec == Init /\ [][RouterNext]_vars

\* ------------------------------------------------------------------ plan requests
\* comprehensive_trip_planning: a /plan request arrives.  Parameters that fail
\* the validation are answered 400 at once.  Otherwise
\* _generate_comprehensive_plan names the plan, builds the queries and submits
\* one _execute_planning_query per configured agent to its thread pool.
Plan(p, destination, days, budget) ==
    /\ plan_pc[p] = "idle"
    /\ p > 1 => plan_pc[p - 1] # "idle"
    /\ plan_data' = [plan_data EXCEPT ![p] =
                        [destination |-> destination, days |-> days, budget |-> budget]]
    /\ IF ValidationError(destination, days, budget) # ""
       THEN /\ plan_status' = [plan_status EXCEPT ![p] = 400]
            /\ plan_pc' = [plan_pc EXCEPT ![p] = "done"]
            /\ UNCHANGED <<plan_id, queries, plan_fut>>
       ELSE /\ plan_id' = [plan_id EXCEPT ![p] = PlanId(now)]
            /\ queries' = [queries EXCEPT ![p] =
                              CreateSpecializedQueries(destination, days, budget, agents)]
            /\ plan_fut' = [plan_fut EXCEPT ![p] =
                               [a \in AllAgents |->
                                   IF a \in agents THEN "queued" ELSE "none"]]
            /\ plan_pc' = [plan_pc EXCEPT ![p] = "collect"]
            /\ UNCHANGED plan_status
    /\ UNCHANGED <<agents, now, chatVars, poolVars, routerVars, unitVars>>
    /\ UNCHANGED <<plan_invocations, results, comprehensive_plan, conversation_memory>>

\* a pool thread begins _execute_planning_query: the agent's
\* start_conversation makes the entry of the plan id in its conversation memory
PlanWorkerStart(p, a) ==
    /\ plan_pc[p] \in {"collect", "shutdown"}
    /\ plan_fut[p][a] = "queued"
    /\ plan_fut' = [plan_fut EXCEPT ![p][a] = "running"]
    /\ plan_invocations' = [plan_invocations EXCEPT ![p][a] = @ + 1]
    /\ conversation_memory' = [conversation_memory EXCEPT ![a] = @ \cup {plan_id[p]}]
    /\ UNCHANGED <<agents, now, chatVars, poolVars, routerVars, unitVars>>
    /\ UNCHANGED <<plan_pc, plan_data, plan_id, queries, results, comprehensive_plan,
                   plan_status>>

\* the agent's call ends while the plan is still collecting: as_completed
\* yields the future and its result is recorded
PlanAgentReturns(p, a, o) ==
    /\ plan_pc[p] = "collect"
    /\ plan_fut[p][a] = "running"
    /\ plan_fut' = [plan_fut EXCEPT ![p][a] = "done"]
    /\ results' = [results EXCEPT ![p] = (a :> ExecutePlanningQuery(a, o)) @@ @]
    /\ UNCHANGED <<agents, now, chatVars, poolVars, routerVars, unitVars>>
    /\ UNCHANGED <<plan_pc, plan_data, plan_id, queries, plan_invocations,
                   comprehensive_plan, plan_status, conversation_memory>>

\* the agent's call ends after the deadline: nobody reads the future's result
PlanLateReturn(p, a) ==
    /\ plan_pc[p] = "shutdown"
    /\ plan_fut[p][a] = "running"
    /\ plan_fut' = [plan_fut EXCEPT ![p][a] = "done"]
    /\ UNCHANGED <<agents, now, chatVars, poolVars, routerVars, unitVars>>
    /\ UNCHANGED <<plan_pc, plan_data, plan_id, queries, plan_invocations, results,
                   comprehensive_plan, plan_status, conversation_memory>>

\* as_completed(timeout=45) raises TimeoutError while a future is unfinished;
\* leaving the with block then waits for the pool to shut down
PlanTimeout(p) ==
    /\ plan_pc[p] = "collect"
    /\ \E a \in agents : plan_fut[p][a] # "done"
    /\ plan_pc' = [plan_pc EXCEPT ![p] = "shutdown"]
    /\ UNCHANGED <<agents, now, chatVars, poolVars, routerVars, unitVars>>
    /\ UNCHANGED <<plan_data, plan_id, queries, plan_fut, plan_invocations, results,
                   comprehensive_plan, plan_status, conversation_memory>>

\* the pool has shut down; the TimeoutError reaches
\* comprehensive_trip_planning, which answers 500
PlanShutdownDone(p) ==
    /\ plan_pc[p] = "shutdown"
    /\ \A a \in agents : plan_fut[p][a] = "done"
    /\ plan_pc' = [plan_pc EXCEPT ![p] = "done"]
    /\ plan_status' = [plan_status EXCEPT ![p] = 500]
    /\ UNCHANGED <<agents, now, chatVars, poolVars, routerVars, unitVars>>
    /\ UNCHANGED <<plan_data, plan_id, queries, plan_fut, plan_invocations, results,
                   comprehensive_plan, conversation_memory>>

\* every future was collected: the plan is compiled and returned
PlanReturns(p) ==
    /\ plan_pc[p] = "collect"
    /\ \A a \in agents : plan_fut[p][a] = "done"
    /\ comprehensive_plan' = [comprehensive_plan EXCEPT ![p] =
                                 ComprehensivePlan(plan_id[p], plan_data[p], results[p],
                                                   agents, now)]
    /\ plan_status' = [plan_status EXCEPT ![p] = 200]
    /\ plan_pc' = [plan_pc EXCEPT ![p] = "done"]
    /\ UNCHANGED <<agents, now, chatVars, poolVars, routerVars, unitVars>>
    /\ UNCHANGED <<plan_data, plan_id, queries, plan_fut, plan_invocations, results,
                   conversation_memory>>

PlanNext ==
    \/ \E p \in Plans, destination \in Destinations, days \in DaysValues,
          budget \in Budgets : Plan(p, destination, days, budget)
    \/ \E p \in Plans, a \in AllAgents : PlanWorkerStart(p, a)
    \/ \E p \in Plans, a \in AllAgents, o \in Outcomes : PlanAgentReturns(p, a, o)
    \/ \E p \in Plans, a \in AllAgents : PlanLateReturn(p, a)
    \/ \E p \in Plans : PlanTimeout(p)
    \/ \E p \in Plans : PlanShutdownDone(p)
    \/ \E p \in Plans : PlanReturns(p)
    \/ Tick

\* /plan requests arriving and running concurrently
PlanSpec == Init /\ [][PlanNext]_vars

\* /plan requests over every trip length around the accepted range, to look at
\* the queries they build
QueryDays == 0 .. 31
QueryBudgets == {180, 1999, 2000}

QueryNext ==
    \E p \in Plans, days \in QueryDays, budget \in QueryBudgets :
        Plan(p, "Tokyo", days, budget)

QuerySpec == Init /\ [][QueryNext]_vars

\* ------------------------------------------------------------------ quality
\* the response dictionaries _assess_coordination_quality can be given: up to
\* MaxResponses agents, each with an answer, an empty answer or an error
ResponseMappings ==
    UNION {[1..n -> {StartConversation(0, o) : o \in Outcomes}
                        \cup {StartConversationEmpty(0)}] : n \in 0..MaxResponses}

\* _multi_agent_conversation builds the summary and the quality assessment of
\* a response dictionary (lines 455-456)
AssessQuality(resp) ==
    /\ assessed_responses' = resp
    /\ assessed_quality' = AssessCoordinationQuality(resp)
    /\ assessed_summary' = GenerateCoordinatorSummary(resp)
    /\ UNCHANGED <<agents, now, chatVars, poolVars, routerVars, planVars, summaryVars,
                   healthVars, constructionVars,
                   memoryVars>>

QualityNext == \E resp \in ResponseMappings : AssessQuality(resp)

\* the quality assessment applied to every response dictionary
QualitySpec == Init /\ [][QualityNext]_vars

\* ------------------------------------------------------------------ health
\* a /health request: every configured agent is checked in turn, an agent
\* whose check raises is entered as unhealthy and the loop goes on
HealthCheck(probes) ==
    LET health == [a \in AllAgents |->
                      IF a \notin agents THEN [status |-> "none"]
                      ELSE IF probes[a].raises
                      THEN [status |-> "unhealthy", error |-> "raised"]
                      ELSE AgentHealthCheck(probes[a])]
    IN  /\ probed' = [a \in agents |-> probes[a]]
        /\ agent_health' = health
        /\ overall_status' = OverallStatus(health, agents)
        /\ UNCHANGED <<agents, now, chatVars, poolVars, routerVars, planVars, qualityVars,
                       constructionVars, memoryVars, summaryVars>>

HealthNext == \E probes \in [AllAgents -> HealthProbes] : HealthCheck(probes)

\* /health requests under every registry, with every behaviour of the agents'
\* checks
HealthSpec == Init /\ [][HealthNext]_vars

\* ------------------------------------------------------------------ blurbs
\* _generate_coordinator_summary hands the text of a successful response to
\* _extract_key_info; one text is followed
SummariseResponse(text, type) ==
    /\ summary_text = NoBlurb
    /\ response_text' = text
    /\ agent_type' = type
    /\ summary_text' = ExtractKeyInfo(text, type)
    /\ UNCHANGED <<agents, now, chatVars, poolVars, routerVars, planVars, qualityVars,
                   constructionVars, memoryVars, healthVars>>

BlurbNext ==
    \E text \in ResponseTexts, type \in AgentTypes : SummariseResponse(text, type)

\* the extraction applied to every response text
BlurbSpec == Init /\ [][BlurbNext]_vars

\* ------------------------------------------------------------------ construction
\* the end of _initialize_agents with the check of the registry left out
InitializeAgentsEndNoCheck(registry) == "ready"

\* the end of _initialize_agents: RuntimeError when no agent was initialised,
\* otherwise __init__ goes on and the coordinator is ready
InitializeAgentsEnd(registry) == IF registry = {} THEN "failed" ELSE "ready"

\* the agent_configs entry the loop of _initialize_agents is at (0: past the end)
NextConfig ==
    IF \E i \in 1..Len(AgentOrder) : agent_init[AgentOrder[i]] = "pending"
    THEN CHOOSE i \in 1..Len(AgentOrder) :
             /\ agent_init[AgentOrder[i]] = "pending"
             /\ \A j \in 1..(i - 1) : agent_init[AgentOrder[j]] # "pending"
    ELSE 0

\* one round of the loop of _initialize_agents: the agent's constructor returns
\* and the agent is registered, or it raises and the agent is left out.  After
\* the last entry the registry is checked.
InitializeAgent(o) ==
    LET i == NextConfig
        a == AgentOrder[i]
        registry == IF o = "ok" THEN new_agents \cup {a} ELSE new_agents
    IN  /\ construction = "initialising"
        /\ i # 0
        /\ agent_init' = [agent_init EXCEPT ![a] = o]
        /\ new_agents' = registry
        /\ construction' = IF i = Len(AgentOrder) THEN InitializeAgentsEnd(registry)
                           ELSE construction
        /\ UNCHANGED served
        /\ UNCHANGED <<agents, now, chatVars, poolVars, routerVars, planVars, summaryVars,
                   healthVars, qualityVars,
                       memoryVars>>

\* the constructed coordinator runs and serves a request
Serve ==
    /\ construction = "ready"
    /\ served < MaxServed
    /\ served' = served + 1
    /\ UNCHANGED <<construction, agent_init, new_agents>>
    /\ UNCHANGED <<agents, now, chatVars, poolVars, routerVars, planVars, summaryVars,
                   healthVars, qualityVars,
                   memoryVars>>

ConstructionNext ==
    \/ \E o \in {"ok", "raised"} : InitializeAgent(o)
    \/ Serve

\* a coordinator is constructed and then serves requests
ConstructionSpec == Init /\ [][ConstructionNext]_vars

\* ------------------------------------------------------------------ agent turns
\* chat_with_agent -> start_conversation (or continue_conversation, which
\* calls it): the conversation id is taken or generated, the entry is created
\* when the id has none, and a chat session is started from the stored history.
\* The caller sends no id, an id of its own, or an id an earlier turn generated.
TurnBegins(t, given) ==
    LET c == ConversationId(given, now)
        entry == IF agent_memory[c].present THEN agent_memory[c] ELSE NewConversation(now)
    IN  /\ turn_pc[t] = "idle"
        /\ t > 1 => turn_pc[t - 1] # "idle"
        /\ given \notin {None, CallerId} => agent_memory[given].present
        /\ turn_given' = [turn_given EXCEPT ![t] = given]
        /\ turn_id' = [turn_id EXCEPT ![t] = c]
        /\ agent_memory' = [agent_memory EXCEPT ![c] = entry]
        /\ chat_history' = [chat_history EXCEPT ![t] = entry.history]
        /\ turn_pc' = [turn_pc EXCEPT ![t] = "sending"]
        /\ UNCHANGED <<turn_result, sweeps, sweep_age, sweep_returned>>
        /\ UNCHANGED <<agents, now, chatVars, poolVars, routerVars, planVars, summaryVars,
                   healthVars, qualityVars,
                       constructionVars>>

\* chat.send_message returns, for the message and for the response of every
\* function call: the session's history has grown by these exchanges; the last
\* 10 entries are stored with last_update and the result is returned.  When
\* the entry was removed meanwhile the update raises KeyError and the error
\* dictionary is returned.
TurnAnswers(t, calls) ==
    LET c == turn_id[t]
        history == chat_history[t] \o Exchanges(t, calls)
    IN  /\ turn_pc[t] = "sending"
        /\ chat_history' = [chat_history EXCEPT ![t] = history]
        /\ IF agent_memory[c].present
           THEN /\ agent_memory' = [agent_memory EXCEPT ![c].history = Last(history, 10),
                                                        ![c].last_update = now]
                /\ turn_result' = [turn_result EXCEPT ![t] =
                                       [kind |-> "response", conversation_id |-> c]]
           ELSE /\ UNCHANGED agent_memory
                /\ turn_result' = [turn_result EXCEPT ![t] =
                                       [kind |-> "error", conversation_id |-> c]]
        /\ turn_pc' = [turn_pc EXCEPT ![t] = "done"]
        /\ UNCHANGED <<turn_given, turn_id, sweeps, sweep_age, sweep_returned>>
        /\ UNCHANGED <<agents, now, chatVars, poolVars, routerVars, planVars, summaryVars,
                   healthVars, qualityVars,
                       constructionVars>>

\* the failed turn stores the session's history with its message
TurnFailsStoringHistory(t) ==
    /\ turn_pc[t] = "sending"
    /\ agent_memory' = [agent_memory EXCEPT ![turn_id[t]].history =
                            Last(chat_history[t] \o <<<<t, 1>>>>, 10)]
    /\ turn_result' = [turn_result EXCEPT ![t] =
                           [kind |-> "error", conversation_id |-> turn_id[t]]]
    /\ turn_pc' = [turn_pc EXCEPT ![t] = "done"]
    /\ UNCHANGED <<turn_given, turn_id, chat_history, sweeps, sweep_age, sweep_returned>>
    /\ UNCHANGED <<agents, now, chatVars, poolVars, routerVars, planVars, summaryVars,
                   healthVars, qualityVars, constructionVars>>

\* chat.send_message raises, for the message or for the response of a function
\* call: the error dictionary is returned
TurnFails(t) ==
    /\ turn_pc[t] = "sending"
    /\ turn_result' = [turn_result EXCEPT ![t] =
                           [kind |-> "error", conversation_id |-> turn_id[t]]]
    /\ turn_pc' = [turn_pc EXCEPT ![t] = "done"]
    /\ UNCHANGED <<agent_memory, turn_given, turn_id, chat_history, sweeps, sweep_age,
                   sweep_returned>>
    /\ UNCHANGED <<agents, now, chatVars, poolVars, routerVars, planVars, summaryVars,
                   healthVars, qualityVars,
                   constructionVars>>

\* clear_old_conversations(max_age_hours)
ClearOldConversations(max_age_hours) ==
    LET old_conversations == OldConversations(agent_memory, max_age_hours, now)
    IN  /\ sweeps < MaxSweeps
        /\ sweeps' = sweeps + 1
        /\ sweep_age' = max_age_hours
        /\ agent_memory' = [c \in AgentConvIds |->
                               IF c \in old_conversations THEN NoConversation
                               ELSE agent_memory[c]]
        /\ sweep_returned' = Cardinality(old_conversations)
        /\ UNCHANGED <<turn_pc, turn_given, turn_id, chat_history, turn_result>>
        /\ UNCHANGED <<agents, now, chatVars, poolVars, routerVars, planVars, summaryVars,
                   healthVars, qualityVars,
                       constructionVars>>

\* an hour passes
HourPasses ==
    /\ now < MaxHours * 3600
    /\ now' = now + 3600
    /\ UNCHANGED <<agents, chatVars, poolVars, routerVars, planVars, unitVars>>

AgentNext ==
    \/ \E t \in Turns, given \in {None} \cup AgentConvIds : TurnBegins(t, given)
    \/ \E t \in Turns, calls \in FunctionCalls : TurnAnswers(t, calls)
    \/ \E t \in Turns : TurnFails(t)
    \/ \E max_age_hours \in SweepAges : ClearOldConversations(max_age_hours)
    \/ HourPasses

\* turns sent to one agent, concurrently, and sweeps of its memory
AgentSpec == Init /\ [][AgentNext]_vars

\* ------------------------------------------------------------------ claims
\* the request of round r was answered with a response (not with the 500 answer)
Answered(r) == pc[r] = "done" /\ outcome[r] = "response"

\* the round went through _multi_agent_conversation
MultiRound(r) == pc[r] # "idle" /\ Cardinality(involved[r]) > 1

\* no round on conversation id c is in flight
Quiet(c) == \A r \in Rounds : conv[r] = c => ~Active(r)

Success(a) == [kind |-> "response", agent |-> a, response |-> "text"]

Failure(a) == [kind |-> "error", agent |-> a]

\* C1: every finished round returns a mapping with exactly one entry for every
\* agent of its routing decision, whatever the agents did (errors, timeouts).
C1_MappingComplete ==
    \A r \in Rounds :
        pc[r] = "done" =>
            /\ outcome[r] = "response"
            /\ DOMAIN reply[r].agent_responses = involved[r]

\* C2: when the deadline passes with some agent still running and agent b had
\* answered in time, the round returns a response that holds b's result as is.
C2_PartialFailureIsolated ==
    \A r \in Rounds : \A b \in involved[r] \ late[r] :
        (pc[r] = "done" /\ late[r] # {} /\ callOutcome[r][b] = "ok") =>
            /\ outcome[r] = "response"
            /\ b \in DOMAIN reply[r].agent_responses
            /\ reply[r].agent_responses[b] = Success(b)

\* C3: once the deadline of a round has passed with agents still running, the
\* round returns, and the entries of those agents are failures.
C3_DeadlineBound ==
    \A r \in Rounds :
        (late[r] # {}) ~>
            (/\ Answered(r)
             /\ \A a \in late[r] :
                    /\ a \in DOMAIN reply[r].agent_responses
                    /\ reply[r].agent_responses[a] = Failure(a))

\* C4: in a multi-agent round an agent whose turn raised an error is recorded
\* as a failure, every selected agent is called exactly once (no retry), the
\* other agents' results are recorded as they returned them, and the error
\* alone never fails the request.
C4_ErrorIsolated ==
    \A r \in Rounds :
        MultiRound(r) =>
            /\ \A a \in involved[r] :
                   invocations[r][a] = IF fut[r][a] = "queued" THEN 0 ELSE 1
            /\ \A a \in DOMAIN responses[r] :
                   /\ callOutcome[r][a] = "error" => responses[r][a] = Failure(a)
                   /\ callOutcome[r][a] = "ok" => responses[r][a] = Success(a)
            /\ (pc[r] = "done" /\ late[r] = {}) =>
                   /\ outcome[r] = "response"
                   /\ reply[r].agent_responses = responses[r]
                   /\ DOMAIN responses[r] = involved[r]

\* a finished multi-agent round in which one agent's turn raised an error and
\* another agent answered, both recorded
C4_Witness ==
    \E r \in Rounds : \E a, b \in involved[r] :
        /\ Answered(r) /\ MultiRound(r)
        /\ callOutcome[r][a] = "error" /\ reply[r].agent_responses[a] = Failure(a)
        /\ callOutcome[r][b] = "ok" /\ reply[r].agent_responses[b] = Success(b)
        /\ invocations[r][a] = 1 /\ invocations[r][b] = 1

\* C5: a request always ends with a response, never with an error, and when
\* every selected agent failed the response reports effectiveness tier low.
C5_AlwaysAnswers ==
    \A r \in Rounds :
        pc[r] = "done" =>
            /\ outcome[r] = "response"
            /\ (\A a \in involved[r] : callOutcome[r][a] = "error") =>
                   reply[r].coordination_quality.coordination_effectiveness = "low"

\* C6: whenever an agent of the result mapping failed, the summary carries a
\* note naming every failed agent, also when all of them failed.
C6_FailureNoteNamesFailed ==
    \A r \in Rounds :
        (Answered(r) /\ reply[r].multi_agent_response) =>
            LET failed == {a \in DOMAIN reply[r].agent_responses :
                              reply[r].agent_responses[a].kind = "error"}
            IN  failed # {} => reply[r].summary.failure_note = failed

\* C7: after two rounds on one conversation id ran concurrently and both were
\* answered, the turn count is the number of turns and the involved-agent set
\* holds the agents of both.
C7_NoLostUpdate ==
    \A c \in ConvIds :
        (/\ overlapped[c]
         /\ Quiet(c)
         /\ \A r \in Rounds : conv[r] = c => Answered(r)) =>
            /\ coordinator_memory[c].message_count = turns[c]
            /\ seen[c] \subseteq coordinator_memory[c].involved_agents

\* C8: every answered turn leaves the stored involved-agent set equal to the
\* union of the agents of all answered turns on the id, and refreshes the
\* last-update timestamp.
C8_UpsertIsUnion ==
    [][\A r \in Rounds :
           (pc[r] # "done" /\ pc'[r] = "done" /\ outcome'[r] = "response") =>
               /\ coordinator_memory'[conv[r]].involved_agents = seen'[conv[r]]
               /\ coordinator_memory'[conv[r]].last_update = now]_vars

\* C9: after n turns answered one after another on a conversation id, the
\* stored turn count is n, whether a turn selected one agent or several.
C9_TurnCount ==
    \A c \in ConvIds :
        (~overlapped[c] /\ Quiet(c)) => coordinator_memory[c].message_count = turns[c]

\* C10: an agent that took part in an earlier answered turn on the id is never
\* called through its start path.
C10_Continuity ==
    \A r \in Rounds : \A a \in AllAgents :
        fut[r][a] = "start" => a \notin prior[r]

\* C11: an agent is called through its continue path only when it took part in
\* an earlier answered turn on the conversation id; an agent taking its first
\* turn on the id is called through its start path, whoever else took turns.
C11_ContinueOnlyIfAssociated ==
    [][\A r \in Rounds : \A a \in AllAgents :
           (fut[r][a] # "continue" /\ fut'[r][a] = "continue") =>
               a \in seen[conv'[r]]]_vars

\* C12: over all requests in flight, the agent calls executing at once never
\* outnumber the workers of the one shared pool.
C12_SharedPoolBound == SumUpTo(executing, NumRequests) <= max_workers

\* ---- the router (RouterSpec)
\* a message was routed
Selected == user_message # <<>>

\* the routed message holds no comprehensive-intent keyword
NoComprehensive == ~ContainsAny(comprehensive_keywords, user_message)

\* the highest score of a configured agent for the routed message
ConfiguredMax == MaxOf({Score(a, user_message) : a \in agents})

\* the first configured agent, in the order flight, hotel, activity, with the
\* highest score
TopConfigured ==
    LET order == AgentList(agents)
        first == CHOOSE i \in 1..Len(order) :
                     /\ Score(order[i], user_message) = ConfiguredMax
                     /\ \A j \in 1..(i - 1) : Score(order[j], user_message) < ConfiguredMax
    IN  order[first]

\* C13: a message with a comprehensive-intent keyword is routed to every
\* configured agent, whatever the scores of the agents are.
C13_ComprehensiveShortCircuit ==
    (Selected /\ ~NoComprehensive) => needed_agents = AgentList(agents)

\* "plan flight": the flight agent alone scores 3, yet all three agents are selected
C13_Witness ==
    /\ agents = AllAgents
    /\ user_message = <<"plan", "flight">>
    /\ Score("flight", user_message) >= 3
    /\ needed_agents = AgentOrder

\* C14: without a comprehensive-intent keyword and with a top score of at
\* least 3, the router returns exactly the top-scoring agent, the first in the
\* order flight, hotel, activity among those that tie.
C14_SingleWinner ==
    (Selected /\ NoComprehensive /\ ConfiguredMax >= 3) =>
        needed_agents = <<TopConfigured>>

\* C15: without a comprehensive-intent keyword and with a top score of 1 or
\* 2, the router returns exactly the agents whose score is above 0.
C15_MultiAgent ==
    (Selected /\ NoComprehensive /\ ConfiguredMax \in 1..2) =>
        /\ SeqToSet(needed_agents) = {a \in agents : Score(a, user_message) > 0}
        /\ Len(needed_agents) = Cardinality(SeqToSet(needed_agents))

\* the generic advice-seeking terms the claim lists
AdviceTerms == <<"recommend", "suggest", "best", "help", "advice">>

\* C16, as stated: when no agent scores above 0 and there is no
\* comprehensive-intent keyword, the round goes to the activity agent alone if
\* and only if the message holds one of the five advice terms, and to every
\* configured agent otherwise.
C16_FallbackAsStated ==
    (Selected /\ NoComprehensive /\ ConfiguredMax = 0) =>
        involved_agents = IF ContainsAny(AdviceTerms, user_message)
                          THEN <<"activity">>
                          ELSE AgentList(agents)

\* C16, amended: "good" is a sixth term, and the default agent is the first
\* configured agent when the activity agent is not configured.
C16_Fallback ==
    (Selected /\ NoComprehensive /\ ConfiguredMax = 0) =>
        involved_agents =
            IF ContainsAny(AdviceTerms \o <<"good">>, user_message)
            THEN <<IF "activity" \in agents THEN "activity" ELSE AgentList(agents)[1]>>
            ELSE AgentList(agents)

\* "good" alone sends the round to the default agent, which is the flight agent
\* when the activity agent is not configured
C16_Witness ==
    /\ agents = {"flight", "hotel"}
    /\ user_message = <<"good">>
    /\ involved_agents = <<"flight">>

\* C17: whatever the message and the registry, the agents a round works with
\* are at least one.
C17_DecisionNonEmpty == Selected => involved_agents # <<>>

\* the router names no agent (the only scorer is not configured, no advice
\* term), and the round takes the configured ones
C17_Witness ==
    /\ agents = {"hotel", "activity"}
    /\ user_message = <<"flight">>
    /\ needed_agents = <<>>
    /\ involved_agents = <<"hotel", "activity">>

InvalidPlanData(p) ==
    \/ plan_data[p].destination = ""
    \/ plan_data[p].days < 1
    \/ plan_data[p].days > 30
    \/ plan_data[p].budget < 100

\* C19: a /plan request with days outside [1,30], a budget below 100 or an
\* empty destination is answered with the validation error (400); no agent is
\* invoked for it, and it creates no plan id, no query, no result, no plan and
\* no conversation entry at any agent.
C19_ValidationFailsFast ==
    /\ \A p \in Plans :
           plan_pc[p] # "idle" /\ InvalidPlanData(p) =>
               /\ plan_pc[p] = "done"
               /\ plan_status[p] = 400
               /\ plan_id[p] = None
               /\ queries[p] = <<>>
               /\ results[p] = <<>>
               /\ comprehensive_plan[p] = NoPlan
               /\ \A a \in AllAgents :
                      plan_invocations[p][a] = 0 /\ plan_fut[p][a] = "none"
    /\ (\A p \in Plans : plan_pc[p] = "idle" \/ InvalidPlanData(p)) =>
           /\ \A a \in AllAgents : conversation_memory[a] = {}
           /\ \A c \in ConvIds : coordinator_memory[c] = NoEntry

\* a request whose only fault is its day count was rejected while another
\* request, with valid parameters, had its agents invoked
C19_Witness ==
    \E p, q \in Plans :
        /\ plan_pc[p] = "done"
        /\ plan_data[p] = [destination |-> "Tokyo", days |-> 31, budget |-> 2000]
        /\ plan_status[p] = 400
        /\ plan_status[q] = 200
        /\ \E a \in agents : plan_invocations[q][a] = 1

\* the given percentage of a budget, rounded down to whole dollars
Share(budget, percentage) == (budget * percentage) \div 100

\* C20: a plan allocates 40% of the budget to flights, 35% to accommodation
\* and 25% to activities (in whole dollars); the queries of the agents carry
\* the same figures as the budget breakdown, the hotel query as the per-night
\* figure derived from the accommodation share; budget 2000 gives 800, 700
\* and 500 in every plan, however the plan requests interleave.
C20_BudgetSplit ==
    \A p \in Plans :
        LET budget == plan_data[p].budget
            nights == IF plan_data[p].days - 1 > 1 THEN plan_data[p].days - 1 ELSE 1
            allocation == comprehensive_plan[p].budget_breakdown.allocation
        IN  /\ plan_id[p] # None =>
                /\ "flight" \in agents => queries[p]["flight"].budget = Share(budget, 40)
                /\ "hotel" \in agents =>
                       queries[p]["hotel"].budget = Share(budget, 35) \div nights
                /\ "activity" \in agents =>
                       queries[p]["activity"].budget = Share(budget, 25)
            /\ plan_status[p] = 200 =>
                /\ allocation.flights.allocated = Share(budget, 40)
                /\ allocation.accommodation.allocated = Share(budget, 35)
                /\ allocation.activities.allocated = Share(budget, 25)
                /\ budget = 2000 =>
                       /\ allocation.flights.allocated = 800
                       /\ allocation.accommodation.allocated = 700
                       /\ allocation.activities.allocated = 500

\* the agents of plan p whose result is a success
PlanSuccesses(p) == {a \in DOMAIN results[p] : results[p][a].kind = "response"}

\* C21 as stated: the completeness percentage of every returned plan equals
\* successful agents / configured agents x 100 and lies in [0,100].
C21_CompletenessExact ==
    \A p \in Plans :
        plan_status[p] = 200 =>
            LET tenths == comprehensive_plan[p].plan_quality.completeness_percentage
            IN  /\ tenths * Cardinality(agents) = Cardinality(PlanSuccesses(p)) * 1000
                /\ tenths >= 0 /\ tenths <= 1000

\* C21: the completeness percentage of every returned plan is successful
\* agents / configured agents x 100 rounded to one decimal place (it differs
\* from the quotient by at most 0.05) and lies in [0,100].
C21_Completeness ==
    \A p \in Plans :
        plan_status[p] = 200 =>
            LET tenths == comprehensive_plan[p].plan_quality.completeness_percentage
                total == Cardinality(agents)
                exact == Cardinality(PlanSuccesses(p)) * 1000
            IN  /\ 2 * (tenths * total - exact) <= total
                /\ 2 * (exact - tenths * total) <= total
                /\ tenths >= 0 /\ tenths <= 1000

\* a plan was returned with one of three agents successful: 33.3
C21_Witness ==
    \E p \in Plans :
        /\ plan_status[p] = 200
        /\ Cardinality(agents) = 3
        /\ Cardinality(PlanSuccesses(p)) = 1
        /\ comprehensive_plan[p].plan_quality.completeness_percentage = 333

\* C22: a plan request with valid parameters invokes every configured agent
\* exactly once, with the query made for it, and is answered with a plan whose
\* result mapping has exactly one entry per configured agent, also when agents
\* fail or exceed the planning deadline.
C22_EveryAgentOnce ==
    \A p \in Plans :
        plan_pc[p] = "done" /\ ~InvalidPlanData(p) =>
            /\ DOMAIN queries[p] = agents
            /\ \A a \in AllAgents :
                   plan_invocations[p][a] = (IF a \in agents THEN 1 ELSE 0)
            /\ plan_status[p] = 200
            /\ DOMAIN comprehensive_plan[p].agent_recommendations = agents

\* C23: two returned plans with the same inputs and the same per-agent
\* results carry identical insights, next steps and summary, whatever the time
\* at which each was generated.
C23_DerivedListsDeterministic ==
    \A p, q \in Plans :
        /\ plan_status[p] = 200
        /\ plan_status[q] = 200
        /\ plan_data[p] = plan_data[q]
        /\ results[p] = results[q]
        => /\ comprehensive_plan[p].intelligent_insights =
                  comprehensive_plan[q].intelligent_insights
           /\ comprehensive_plan[p].next_steps = comprehensive_plan[q].next_steps
           /\ comprehensive_plan[p].coordinator_summary =
                  comprehensive_plan[q].coordinator_summary

\* C24: every returned plan has at most 3 insights and at most 6 next steps.
C24_ListBounds ==
    \A p \in Plans :
        plan_status[p] = 200 =>
            /\ Len(comprehensive_plan[p].intelligent_insights) <= 3
            /\ Len(comprehensive_plan[p].next_steps) <= 6

\* a plan compiled in winter with every agent successful and a premium budget:
\* four insights and ten steps were collected, three and six are returned
C24_Witness ==
    \E p \in Plans :
        /\ plan_status[p] = 200
        /\ PlanSuccesses(p) = AllAgents
        /\ plan_data[p].budget = 2000
        /\ Len(CollectedInsights(results[p], plan_data[p].budget,
                                  comprehensive_plan[p].generated_at)) = 4
        /\ Len(comprehensive_plan[p].intelligent_insights) = 3
        /\ Len(comprehensive_plan[p].next_steps) = 6

\* a step of the returned next steps is one of the universal steps
HasUniversalStep(steps) ==
    \E i \in 1..Len(steps), j \in 1..Len(UniversalSteps) : steps[i] = UniversalSteps[j]

\* C25: the next steps of every returned plan are the steps of the agents
\* that succeeded followed by universal travel-readiness steps, at least one
\* of which is present, also when all three agents succeed.
C25_UniversalStepPresent ==
    \A p \in Plans :
        plan_status[p] = 200 => HasUniversalStep(comprehensive_plan[p].next_steps)

\* C26: every returned plan carries more than two next steps, whichever
\* agents succeeded.
C26_MoreThanTwoSteps ==
    \A p \in Plans :
        plan_status[p] = 200 => Len(comprehensive_plan[p].next_steps) > 2

\* a plan was returned although no agent succeeded: the four universal steps
C26_Witness ==
    \E p \in Plans :
        /\ plan_status[p] = 200
        /\ PlanSuccesses(p) = {}
        /\ Cardinality(agents) = 3
        /\ Len(comprehensive_plan[p].next_steps) = 4

\* the successful entries of the response dictionary last assessed
AssessedSuccesses ==
    Cardinality({i \in DOMAIN assessed_responses : assessed_responses[i].kind = "response"})

\* the tier of the response dictionary last assessed follows its exact
\* quality successCount / total x 100
AssessedTier ==
    LET total == Len(assessed_responses)
        tier == assessed_quality.coordination_effectiveness
    IN  /\ tier = "high" <=> (total > 0 /\ AssessedSuccesses * 100 >= 80 * total)
        /\ tier = "medium" <=> (total > 0 /\ AssessedSuccesses * 100 >= 50 * total
                                          /\ AssessedSuccesses * 100 < 80 * total)
        /\ tier = "low" <=> (total = 0 \/ AssessedSuccesses * 100 < 50 * total)

\* C27 as stated: the quality reported for a response dictionary equals
\* successCount / total x 100 (0 for an empty dictionary) and its tier is high
\* from 80, medium from 50 and low below.
C27_QualityExact ==
    assessed_quality # NoQuality =>
        /\ assessed_quality.success_rate * Len(assessed_responses) = AssessedSuccesses * 1000
        /\ Len(assessed_responses) = 0 => assessed_quality.success_rate = 0
        /\ AssessedTier

\* C27: the quality reported for a response dictionary is successCount /
\* total x 100 printed with one decimal (within 0.05 of the quotient, 0 for an
\* empty dictionary), and its tier follows the unrounded quotient: high from
\* 80, medium from 50 and low below; an empty dictionary is low.
C27_Quality ==
    assessed_quality # NoQuality =>
        LET total == Len(assessed_responses)
            exact == AssessedSuccesses * 1000
            tenths == assessed_quality.success_rate
        IN  /\ 2 * (tenths * total - exact) <= total
            /\ 2 * (exact - tenths * total) <= total
            /\ total = 0 => tenths = 0
            /\ assessed_quality.successful_agents = AssessedSuccesses
            /\ assessed_quality.failed_agents = total - AssessedSuccesses
            /\ AssessedTier

\* four of five agents answered: the quality is exactly 80 and the tier high
C27_Witness ==
    /\ Len(assessed_responses) = 5
    /\ AssessedSuccesses = 4
    /\ assessed_quality.success_rate = 800
    /\ assessed_quality.coordination_effectiveness = "high"

\* C28: the construction of a coordinator fails exactly when no agent could
\* be initialised; otherwise it succeeds with exactly the agents whose
\* constructor returned, and only a coordinator with a non-empty registry
\* serves requests.
C28_Construction ==
    LET initialised == {a \in AllAgents : agent_init[a] = "ok"}
        done == \A a \in AllAgents : agent_init[a] # "pending"
    IN  /\ new_agents = initialised
        /\ done => (construction = "failed" <=> initialised = {})
        /\ done => (construction = "ready" <=> initialised # {})
        /\ ~done => construction = "initialising"
        /\ served > 0 => construction = "ready" /\ new_agents # {}

\* a coordinator whose flight and activity agents failed to initialise is
\* ready with the hotel agent alone and has served a request
C28_Witness ==
    /\ construction = "ready"
    /\ agent_init = [a \in AllAgents |-> IF a = "hotel" THEN "ok" ELSE "raised"]
    /\ new_agents = {"hotel"}
    /\ served > 0

\* the time of the last update of an entry: its last completed turn, or its
\* creation when no turn has completed
LastUpdate(entry) ==
    IF entry.last_update = Unset THEN entry.created_at ELSE entry.last_update

\* the entries whose last update is more than max_age_hours before t
IdleConversations(memory, max_age_hours, t) ==
    {c \in AgentConvIds :
        memory[c].present /\ t - LastUpdate(memory[c]) > max_age_hours * 3600}

\* C29: a sweep removes exactly the entries whose last update is older than
\* the idle period, leaves every other entry unchanged and returns the number
\* of entries it removed; an entry updated within the idle period stays.
C29_SweepExact ==
    [][sweeps' # sweeps =>
          LET idle == IdleConversations(agent_memory, sweep_age', now)
          IN  /\ agent_memory' = [c \in AgentConvIds |->
                                     IF c \in idle THEN NoConversation
                                     ELSE agent_memory[c]]
              /\ sweep_returned' = Cardinality(idle)]_vars

\* C30: a turn sent with the conversation id c of an earlier turn runs under
\* c and returns c; it opens no new conversation, it starts from the history
\* stored under c, and when it is answered the history stored under c is that
\* history extended by its own exchange (the last 10 entries of it), every
\* other entry staying as it was.
C30_IdentityPreserved ==
    [][\A t \in Turns :
          /\ (turn_pc[t] = "idle" /\ turn_pc'[t] = "sending" /\ turn_given'[t] # None
              /\ agent_memory[turn_given'[t]].present) =>
                 /\ turn_id'[t] = turn_given'[t]
                 /\ agent_memory' = agent_memory
                 /\ chat_history'[t] = agent_memory[turn_given'[t]].history
          /\ (turn_pc[t] = "sending" /\ turn_pc'[t] = "done" /\ turn_given[t] # None) =>
                 /\ turn_result'[t].conversation_id = turn_given[t]
                 /\ turn_result'[t].kind = "response" =>
                        \E calls \in FunctionCalls :
                            agent_memory' =
                                [agent_memory EXCEPT
                                     ![turn_given[t]].history =
                                         Last(chat_history[t] \o Exchanges(t, calls), 10),
                                     ![turn_given[t]].last_update = now]]_vars

\* three turns on one conversation: the second and the third were sent with
\* the id the first returned, and the stored history holds all three exchanges
C30_Witness ==
    \E c \in AgentConvIds :
        /\ turn_given[1] = None
        /\ turn_result[1] = [kind |-> "response", conversation_id |-> c]
        /\ turn_given[2] = c
        /\ turn_given[3] = c
        /\ turn_result[3] = [kind |-> "response", conversation_id |-> c]
        /\ agent_memory[c].history = Exchanges(1, 0) \o Exchanges(2, 0) \o Exchanges(3, 0)

\* C31: within a round the store is written only when the round ends, after
\* every agent call of the round has been made and has settled; every call
\* takes its start/continue decision from the store while the round has not
\* written to it.
C31_StoreWrittenAfterSettled ==
    [][/\ coordinator_memory' # coordinator_memory =>
              \E r \in Rounds :
                  /\ pc[r] # "done" /\ pc'[r] = "done"
                  /\ \A c \in ConvIds \ {conv[r]} :
                         coordinator_memory'[c] = coordinator_memory[c]
                  /\ \A a \in involved[r] :
                         fut'[r][a] = "done" /\ invocations[r][a] = 1
       /\ \A r \in Rounds, a \in AllAgents :
              (fut[r][a] \notin {"start", "continue"} /\ fut'[r][a] \in {"start", "continue"}) =>
                  /\ outcome[r] = "none"
                  /\ pc'[r] \in {"single", "collect", "shutdown"}
                  /\ fut'[r][a] = IF Cardinality(involved'[r]) = 1
                                  THEN SinglePath(conv'[r])
                                  ELSE QueryPath(a, conv'[r])]_vars

\* a multi-agent round on an id another round had written before has ended:
\* its agents were continued, and the entry it stored counts two messages
C31_Witness ==
    \E r \in Rounds :
        /\ pc[r] = "done"
        /\ outcome[r] = "response"
        /\ Cardinality(involved[r]) > 1
        /\ \A a \in involved[r] : invocations[r][a] = 1 /\ fut[r][a] = "done"
        /\ coordinator_memory[conv[r]].kind = "multi"
        /\ coordinator_memory[conv[r]].message_count = 2

\* C32: the per-night figure of the hotel query is the hotel allocation
\* integer-divided by max(days - 1, 1): for every accepted request days lies
\* in 1..30, the divisor is at least 1, the figure is the floor of the
\* quotient and never exceeds the allocation.
C32_PerNightFigure ==
    \A p \in Plans :
        (plan_pc[p] = "collect" /\ "hotel" \in agents) =>
            LET days == plan_data[p].days
                nights == IF days - 1 > 1 THEN days - 1 ELSE 1
                allocation == HotelBudget(plan_data[p].budget)
                figure == queries[p]["hotel"].budget
            IN  /\ days \in 1 .. 30
                /\ nights >= 1
                /\ figure * nights <= allocation
                /\ allocation < (figure + 1) * nights
                /\ figure >= 0 /\ figure <= allocation

\* a one-day trip was accepted: the divisor is 1 and the figure is the whole
\* allocation; and a thirty-day trip divides by 29
C32_Witness ==
    /\ "hotel" \in agents
    /\ \E p \in Plans :
           /\ plan_pc[p] = "collect"
           /\ plan_data[p].days = 1
           /\ queries[p]["hotel"].budget = HotelBudget(plan_data[p].budget)
    /\ \E p \in Plans :
           /\ plan_pc[p] = "collect"
           /\ plan_data[p].days = 30
           /\ plan_data[p].budget = 2000
           /\ queries[p]["hotel"].budget = 24

\* the part of C33 about the sentences of a long text: the blurb's sentences
\* are the longest run from the front of the descending-score order (ties in
\* the order of the text) whose lengths add up to at most 180
C33_Greedy ==
    LET text == response_text
        parts == summary_text.parts
        score(i) == SentenceScore(text[i], agent_type)
        ahead(i, j) == score(i) > score(j) \/ (score(i) = score(j) /\ i < j)
        included == {parts[k] : k \in DOMAIN parts}
        left == DOMAIN text \ included
        total == CharCount(text, parts, 1)
    IN  /\ Cardinality(included) = Len(parts)
        /\ \A k, l \in DOMAIN parts : k < l => ahead(parts[k], parts[l])
        /\ \A i \in included, j \in left : ahead(i, j)
        /\ total <= 180
        /\ \A j \in left :
               (\A i \in left \ {j} : ahead(j, i)) => total + text[j].len > 180
        /\ summary_text.kind = (IF parts # <<>> THEN "sentences" ELSE "prefix")

C34_DistinctGeneratedIds ==
    \A r, q \in Rounds :
        (/\ r # q
         /\ pc[r] # "idle" /\ pc[q] # "idle"
         /\ conv[r] \in {GeneratedId(t) : t \in 0 .. MaxTime}
         /\ conv[q] \in {GeneratedId(t) : t \in 0 .. MaxTime}) =>
            conv[r] # conv[q]

\* C35: the summary and the quality assessment of a response dictionary agree:
\* every agent is either given a blurb or is one that failed, never both, the
\* number of blurbs is the assessment's successful count, and successful +
\* failed is the number of agents.
C35_ConsistentClassification ==
    LET resp == assessed_responses
        failed == {a \in DOMAIN resp : resp[a].kind = "error"}
    IN  /\ \A a \in DOMAIN resp : (a \in assessed_summary.blurbs) # (a \in failed)
        /\ Cardinality(assessed_summary.blurbs) = assessed_quality.successful_agents
        /\ assessed_quality.successful_agents + assessed_quality.failed_agents = Len(resp)

\* C36: every routing decision holds only configured agents and no agent
\* twice, for every message and every registry; a keyword match for an agent
\* that is not configured never selects it.
C36_RoutingWithinRegistry ==
    user_message # <<>> =>
        /\ SeqToSet(involved_agents) \subseteq agents
        /\ Cardinality(SeqToSet(involved_agents)) = Len(involved_agents)
        /\ SeqToSet(needed_agents) \subseteq agents
        /\ Cardinality(SeqToSet(needed_agents)) = Len(needed_agents)
        /\ needed_again.called =>
               /\ SeqToSet(needed_again.needed_agents) \subseteq agents
               /\ Cardinality(SeqToSet(needed_again.needed_agents)) =
                      Len(needed_again.needed_agents)

\* the message scores highest for an agent that is not configured: the router
\* names nobody and the round falls back to the configured agents
C36_Witness ==
    /\ user_message # <<>>
    /\ ~ContainsAny(comprehensive_keywords, user_message)
    /\ ScoredAgents(user_message) # <<>>
    /\ BestAgent(user_message) \notin agents
    /\ MaxScore(user_message) >= 3
    /\ needed_agents = <<>>
    /\ involved_agents = AgentList(agents)
    /\ Cardinality(agents) = 2

C38_OverallHealth ==
    overall_status # "none" =>
        /\ overall_status \in {"healthy", "degraded"}
        /\ overall_status = "healthy" <=>
               \A a \in agents :
                   ~probed[a].raises /\ probed[a].vertex_ai = "connected"
        /\ \A a \in agents :
               /\ agent_health[a].status \in {"healthy", "degraded", "unhealthy"}
               /\ agent_health[a].status = "unhealthy" <=> probed[a].raises
               /\ agent_health[a].status = "healthy" <=>
                      (~probed[a].raises /\ probed[a].vertex_ai = "connected")
        /\ \A a \in AllAgents \ agents : agent_health[a].status = "none"

\* the first of three agents raised, the two after it were checked and are
\* healthy (one without a Kubernetes client): the overall status is degraded
C38_Witness ==
    /\ agents = AllAgents
    /\ overall_status = "degraded"
    /\ agent_health[AgentOrder[1]].status = "unhealthy"
    /\ agent_health[AgentOrder[2]].status = "healthy"
    /\ agent_health[AgentOrder[3]].status = "healthy"
    /\ agent_health[AgentOrder[3]].kubernetes_status = "not_available"

====
